---- MODULE Spec2Model ----
(***************************************************************************)
(* Payload resolution engine of opentp-cli (src/src/core/payload.ts).      *)
(*                                                                         *)
(* One call of resolveEventPayload(payload, config) is modelled as a state *)
(* machine: the selector loop, the per-target loop, every iteration of the *)
(* two alias chases and every entry and exit of the two $ref resolvers are *)
(* steps.  The pure helpers (normalizer, merges) are operators.            *)
(*                                                                         *)
(* Data representation                                                     *)
(*  - a JS string that may hold the separator "::" is the tuple of its     *)
(*    trimmed segments: "v1" is <<"v1">>, "web::v1" is <<"web", "v1">>,    *)
(*    "::v1" is <<"", "v1">>, "" is <<"">>;                                *)
(*  - a JS object whose iteration order the code observes is a sequence of *)
(*    <<key, value>> pairs with distinct keys (insertion order);           *)
(*  - a field schema (Record<string, Field>) and a Field are functions;    *)
(*    an undefined schema is the empty function;                           *)
(*  - a raw (untyped) value is a record tagged t: "str", "obj", "schema"   *)
(*    (a plain object of fields), "other" (number, boolean, null, array)   *)
(*    or "undef".                                                          *)
(***************************************************************************)
EXTENDS Integers, Sequences, FiniteSets, TLC

\* ------------------------------------------------------------------------
\* JS values
\* ------------------------------------------------------------------------

UNVERSIONED_VERSION_KEY == "__unversioned__"

\* The value of a failed resolution (null).
NULL == "<null>"

\* undefined
Undef == [t |-> "undef"]

\* {} as a map: a schema without fields, an empty Map.
EmptyMap == [k \in {} |-> k]

Str(segs) == [t |-> "str", s |-> segs]

Obj(entries) == [t |-> "obj", e |-> entries]

SchemaObj(m) == [t |-> "schema", m |-> m]

Other == [t |-> "other"]

\* A plain name as a JS string.
Plain(k) == <<k>>

\* Names every object literal inherits from Object.prototype: obj[name] is
\* truthy for them although name is no own key.
ProtoNames == {"constructor"}

\* The inherited value: a function object, with no schema and no $ref.
ProtoValue == [ref |-> Undef, schema |-> EmptyMap]

\* ------------------------------------------------------------------------
\* Ordered objects: sequences of <<key, value>>
\* ------------------------------------------------------------------------

Keys(o) == [i \in 1..Len(o) |-> o[i][1]]

KeySet(o) == {o[i][1] : i \in 1..Len(o)}

Has(o, k) == \E i \in 1..Len(o) : o[i][1] = k

Get(o, k) == o[CHOOSE i \in 1..Len(o) : o[i][1] = k][2]

\* o[k] = v: an existing key keeps its position, a new key is appended.
Put(o, k, v) ==
  IF Has(o, k)
  THEN [i \in 1..Len(o) |-> IF o[i][1] = k THEN <<k, v>> ELSE o[i]]
  ELSE Append(o, <<k, v>>)

RECURSIVE Spread(_, _)
\* {...a, ...b}
Spread(a, b) ==
  IF b = <<>> THEN a ELSE Spread(Put(a, Head(b)[1], Head(b)[2]), Tail(b))

Without(f, ks) == [k \in DOMAIN f \ ks |-> f[k]]

\* ------------------------------------------------------------------------
\* Normalizer
\* ------------------------------------------------------------------------

isPlainObject(value) == value.t \in {"obj", "schema"}

\* value[k] of a raw value (undefined when absent or not an object).
Prop(value, k) ==
  CASE value.t = "obj" -> IF Has(value.e, k) THEN Get(value.e, k) ELSE Undef
    [] value.t = "schema" -> IF k \in DOMAIN value.m THEN Obj(<<>>) ELSE Undef
    [] OTHER -> Undef

\* A payload version is taken to be any plain object.
isPayloadVersionAnyObject(value) == isPlainObject(value)

isPayloadVersion(value) ==
  isPlainObject(value) /\ isPlainObject(Prop(value, "schema"))

isVersionedTargetPayload(value) ==
  /\ isPlainObject(value)
  /\ ~isPlainObject(Prop(value, "schema"))
  /\ Prop(value, "current").t = "str"

\* The schema map of a raw value known to be a payload version.  A schema
\* object given as a generic object holds no modelled field.
SchemaOf(value) ==
  LET s == Prop(value, "schema") IN IF s.t = "schema" THEN s.m ELSE EmptyMap

\* A raw payload version as a PayloadVersion {$ref, schema}.
AsVersion(value) == [ref |-> Prop(value, "$ref"), schema |-> SchemaOf(value)]

\* Own entries of a raw plain object.
Entries(value) ==
  IF value.t = "obj" THEN value.e ELSE <<>>

Issue(path, kind, args) == [path |-> path, kind |-> kind, args |-> args]

RECURSIVE ParseEntries(_, _, _)
\* The loop of parseTargetPayload over Object.entries(obj): acc holds the
\* versions, the aliases and the issues so far.
ParseEntries(es, path, acc) ==
  IF es = <<>> THEN acc
  ELSE
    LET key == Head(es)[1]
        value == Head(es)[2]
        next ==
          CASE key = "current" -> acc
            [] value.t = "str" ->
                 [acc EXCEPT !.aliases = Put(@, key, value.s)]
            [] isPayloadVersion(value) ->
                 [acc EXCEPT !.versions = Put(@, key, AsVersion(value))]
            [] OTHER ->
                 [acc EXCEPT !.issues =
                    Append(@, Issue(path \o <<key>>, "InvalidVersionEntry", <<>>))]
    IN ParseEntries(Tail(es), path, next)

\* parseTargetPayload: the normalized payload and the issues it pushes.
parseTargetPayload(payload, path) ==
  IF isPayloadVersion(payload)
  THEN [np |-> [isUnversioned |-> TRUE,
                currentRef |-> Plain(UNVERSIONED_VERSION_KEY),
                aliases |-> <<>>,
                versions |-> <<<<UNVERSIONED_VERSION_KEY, AsVersion(payload)>>>>],
        issues |-> <<>>]
  ELSE IF ~isVersionedTargetPayload(payload)
  THEN [np |-> [isUnversioned |-> TRUE,
                currentRef |-> Plain(UNVERSIONED_VERSION_KEY),
                aliases |-> <<>>,
                versions |-> <<>>],
        issues |-> <<Issue(path, "InvalidTargetPayload", <<>>)>>]
  ELSE
    LET acc == ParseEntries(Entries(payload), path,
                            [versions |-> <<>>, aliases |-> <<>>, issues |-> <<>>])
    IN [np |-> [isUnversioned |-> FALSE,
                currentRef |-> Prop(payload, "current").s,
                aliases |-> acc.aliases,
                versions |-> acc.versions],
        issues |-> acc.issues]

\* ------------------------------------------------------------------------
\* Merges
\* ------------------------------------------------------------------------

\* {...(base.k ?? {}), ...(override.k ?? {})}, or undefined when neither
\* side has k: the nested maps `checks` and `pii`.
MergeNested(base, override, k, merged) ==
  IF k \in DOMAIN base \/ k \in DOMAIN override
  THEN LET b == IF k \in DOMAIN base THEN base[k] ELSE EmptyMap
           o == IF k \in DOMAIN override THEN override[k] ELSE EmptyMap
       IN (k :> (o @@ b)) @@ merged
  ELSE Without(merged, {k})

\* A merge that clears no mechanism.
mergeFieldKeepAll(base, override) ==
  MergeNested(base, override, "pii",
    MergeNested(base, override, "checks", override @@ base))

mergeField(base, override) ==
  LET spread == override @@ base
      merged == MergeNested(base, override, "pii",
                  MergeNested(base, override, "checks", spread))
  IN CASE "value" \in DOMAIN override -> Without(merged, {"enum", "dict"})
       [] "enum" \in DOMAIN override -> Without(merged, {"value", "dict"})
       [] "dict" \in DOMAIN override -> Without(merged, {"value", "enum"})
       [] OTHER -> merged

\* A merge of schemas that replaces a field of both by the override's.
mergeSchemaMapsWholesale(base, override) == override @@ base

mergeSchemaMaps(base, override) ==
  [name \in DOMAIN base \cup DOMAIN override |->
     IF name \in DOMAIN override
     THEN IF name \in DOMAIN base
          THEN mergeField(base[name], override[name])
          ELSE override[name]
     ELSE base[name]]

\* override.$ref ?? base.$ref
mergePayloadVersion(base, override) ==
  [ref |-> IF override.ref.t = "undef" THEN base.ref ELSE override.ref,
   schema |-> mergeSchemaMaps(base.schema, override.schema)]

RECURSIVE MergeVersions(_, _)
\* The loop that merges the override's versions into a copy of the base's.
MergeVersions(mergedVersions, es) ==
  IF es = <<>> THEN mergedVersions
  ELSE
    LET key == Head(es)[1]
        overrideVersion == Head(es)[2]
    IN MergeVersions(
         Put(mergedVersions, key,
             IF Has(mergedVersions, key)
             THEN mergePayloadVersion(Get(mergedVersions, key), overrideVersion)
             ELSE overrideVersion),
         Tail(es))

\* A merge that keeps the narrower payload alone.
mergeOverrideAlone(base, override) == override

mergeNormalizedTargetPayload(base, override) ==
  LET hasB == Has(base.versions, UNVERSIONED_VERSION_KEY)
      hasO == Has(override.versions, UNVERSIONED_VERSION_KEY)
  IN
  CASE base.isUnversioned /\ override.isUnversioned ->
         IF ~hasB THEN override
         ELSE IF ~hasO THEN base
         ELSE [isUnversioned |-> TRUE,
               currentRef |-> Plain(UNVERSIONED_VERSION_KEY),
               aliases |-> <<>>,
               versions |-> <<<<UNVERSIONED_VERSION_KEY,
                  mergePayloadVersion(Get(base.versions, UNVERSIONED_VERSION_KEY),
                                      Get(override.versions, UNVERSIONED_VERSION_KEY))>>>>]
    [] base.isUnversioned /\ ~override.isUnversioned ->
         IF ~hasB THEN override
         ELSE LET overlay == Get(base.versions, UNVERSIONED_VERSION_KEY)
                  versions == override.versions
              IN [override EXCEPT !.versions =
                    [i \in 1..Len(versions) |->
                       <<versions[i][1],
                         [versions[i][2] EXCEPT
                            !.schema = mergeSchemaMaps(overlay.schema, @)]>>]]
    [] ~base.isUnversioned /\ override.isUnversioned ->
         IF ~hasO THEN base
         ELSE LET overlay == Get(override.versions, UNVERSIONED_VERSION_KEY)
                  versions == base.versions
              IN [base EXCEPT !.versions =
                    [i \in 1..Len(versions) |->
                       <<versions[i][1],
                         [versions[i][2] EXCEPT
                            !.schema = mergeSchemaMaps(@, overlay.schema)]>>]]
    [] OTHER ->
         [isUnversioned |-> FALSE,
          currentRef |-> override.currentRef,
          aliases |-> Spread(base.aliases, override.aliases),
          versions |-> MergeVersions(base.versions, override.versions)]

\* A subset test that compares sizes only.
isSubsetBySize(a, b) == Cardinality(a) <= Cardinality(b)

isSubset(a, b) == \A x \in a : x \in b

\* The result of parseSelectorRef for an empty selector or name part (null).
NoRef == [selector |-> NULL, name |-> NULL]

\* parseSelectorRef without the test for an empty part.
parseSelectorRefLax(ref, defaultSelector) ==
  IF Len(ref) = 1 THEN [selector |-> defaultSelector, name |-> ref[1]]
  ELSE [selector |-> ref[1], name |-> ref[2]]

\* parseSelectorRef: the selector and the name of a reference, or NoRef.
parseSelectorRef(ref, defaultSelector) ==
  IF Len(ref) = 1 THEN [selector |-> defaultSelector, name |-> ref[1]]
  ELSE IF ref[1] = "" \/ ref[2] = "" THEN NoRef
  ELSE [selector |-> ref[1], name |-> ref[2]]

\* ------------------------------------------------------------------------
\* State of one call of resolveEventPayload
\* ------------------------------------------------------------------------

VARIABLES
  config,               \* config.spec.events.payload.targets: group -> targets
  baseSchema,           \* config.spec.events.payload.schema
  targetBases,          \* config.spec.targets: target -> schema
  payload,              \* the raw event payload
  errors,               \* the conflict errors of validatePayload
  effective,            \* target -> version -> effective schema, of validatePayload
  results,              \* what the calls of resolveEventPayload so far returned
  computed,             \* the scope::version each resolver started to compute
  pc,                   \* the statement the call is at
  issues,               \* PayloadIssue[]
  selectorMap,          \* selector -> raw target payload, in file order
  selectorIndex,        \* position of the selector loop in selectorMap
  selectors,            \* the known selectors: name, index, targets, payload
  selectorPayloads,     \* selector -> NormalizedTargetPayload, known or not
  selectorSchemaCache,  \* "selector::version" -> schema, one per call
  resolvedTargets,      \* the output: target -> ResolvedTargetPayload
  ti,                   \* position of the target loop in targets.all
  merged,               \* the merged payload of the target at hand
  resolvedAliases,      \* its resolved aliases
  ai,                   \* position of resolveAllAliases in merged.aliases
  currentKey,           \* its resolved current
  cache,                \* version key -> schema, one per target
  resolvedVersions,     \* its resolved versions
  vi,                   \* position of the version loop in merged.versions
  stack,                \* the in-progress stack of resolveRefSchema
  frames,               \* the activations of resolveRefSchema: key, schema
  selStack,             \* the in-progress stack of resolveSelectorSchema
  selFrames,            \* the activations of resolveSelectorSchema
  chase,                \* locals of the alias chase in progress
  arg,                  \* the argument of the call being entered
  ret                   \* the value just returned

inputVars == <<config, baseSchema, targetBases, payload>>

\* The state of the callers of resolveEventPayload.
callerVars == <<errors, effective, results>>

selVars == <<selectorMap, selectorIndex, selectors, selectorPayloads>>

targetVars == <<merged, resolvedAliases, ai, currentKey, cache, resolvedVersions, vi>>

refVars == <<stack, frames>>

selRefVars == <<selStack, selFrames, selectorSchemaCache>>

vars == <<config, baseSchema, targetBases, payload, errors, effective, results,
          computed, pc, issues, selectorMap, selectorIndex, selectors,
          selectorPayloads, selectorSchemaCache, resolvedTargets, ti, merged,
          resolvedAliases, ai, currentKey, cache, resolvedVersions, vi, stack,
          frames, selStack, selFrames, chase, arg, ret>>

\* targetsConfig.all ?? []
allTargets == IF "all" \in DOMAIN config THEN config["all"] ELSE <<>>

Range(seq) == {seq[i] : i \in 1..Len(seq)}

NoChase == [site |-> "none"]

NoPayload ==
  [isUnversioned |-> TRUE, currentRef |-> Plain(UNVERSIONED_VERSION_KEY),
   aliases |-> <<>>, versions |-> <<>>]

\* A schema as a returned value; null is [some |-> FALSE].
Some(schema) == [some |-> TRUE, schema |-> schema]

None == [some |-> FALSE, schema |-> EmptyMap]

\* An entry of `computed`: a resolver passed its cache and stack tests for
\* scope::version and went on to compute its schema (the push on the stack,
\* lines 279 and 478).
Computation(resolver, scope, versionKey) ==
  [resolver |-> resolver, scope |-> scope, version |-> versionKey]

\* The state before the first statement of the first call, for a given
\* payload, target table, baseline schema and per-target schemas.
InitCall(p, c, base, bases) ==
  /\ baseSchema = base
  /\ targetBases = bases
  /\ errors = <<>>
  /\ effective = <<>>
  /\ results = <<>>
  /\ computed = <<>>
  /\ payload = p
  /\ config = c
  /\ pc = "start"
  /\ issues = <<>>
  /\ selectorMap = <<>>
  /\ selectorIndex = 1
  /\ selectors = <<>>
  /\ selectorPayloads = <<>>
  /\ selectorSchemaCache = EmptyMap
  /\ resolvedTargets = <<>>
  /\ ti = 1
  /\ merged = NoPayload
  /\ resolvedAliases = <<>>
  /\ ai = 1
  /\ currentKey = NULL
  /\ cache = EmptyMap
  /\ resolvedVersions = <<>>
  /\ vi = 1
  /\ stack = <<>>
  /\ frames = <<>>
  /\ selStack = <<>>
  /\ selFrames = <<>>
  /\ chase = NoChase
  /\ arg = <<>>
  /\ ret = None

\* The state before the first statement, for a given payload and config: no
\* baseline schema and no per-target schema.
InitWith(p, c) == InitCall(p, c, EmptyMap, EmptyMap)

\* The statement after the selector loop, or after the body of the target
\* loop for the target at position i - 1.
TargetLoop(i) == IF i > Len(allTargets) THEN "done" ELSE "target"

\* Lines 326-353: the issues list, the check of targets.all and the
\* normalization of the payload to a selector map.
Start ==
  /\ pc = "start"
  /\ LET i0 == IF Len(allTargets) = 0
               THEN <<Issue(<<"spec.events.payload.targets.all">>,
                            "MissingTargetsAll", <<>>)>>
               ELSE <<>>
         map == IF isPayloadVersion(payload) \/ isVersionedTargetPayload(payload)
                THEN <<<<"all", payload>>>>
                ELSE IF isPlainObject(payload) THEN Entries(payload)
                ELSE <<>>
         i1 == IF ~isPlainObject(payload)
               THEN <<Issue(<<"payload">>, "InvalidPayload", <<>>)>>
               ELSE IF Len(map) = 0
               THEN <<Issue(<<"payload">>, "PayloadEmpty", <<>>)>>
               ELSE <<>>
     IN /\ issues' = i0 \o i1
        /\ selectorMap' = map
        /\ pc' = IF Len(map) = 0 THEN TargetLoop(1) ELSE "parse"
  /\ selectorIndex' = 1
  /\ UNCHANGED <<inputVars, callerVars, computed, selectors, selectorPayloads, selectorSchemaCache,
                 resolvedTargets, ti, targetVars, refVars, selStack, selFrames,
                 chase, arg, ret>>

\* Lines 366-390: one iteration of the selector loop.
ParseSelector ==
  /\ pc = "parse"
  /\ LET selectorName == selectorMap[selectorIndex][1]
         parsed == parseTargetPayload(selectorMap[selectorIndex][2],
                                      <<"payload", selectorName>>)
         known == selectorName \in DOMAIN config \/ selectorName \in Range(allTargets)
         selectorTargets ==
           IF selectorName \in DOMAIN config THEN Range(config[selectorName])
           ELSE {selectorName}
     IN /\ selectorPayloads' = Put(selectorPayloads, selectorName, parsed.np)
        /\ IF known
           THEN /\ selectors' = Append(selectors,
                      [name |-> selectorName, index |-> selectorIndex - 1,
                       targets |-> selectorTargets, payload |-> parsed.np])
                /\ issues' = issues \o parsed.issues
           ELSE /\ selectors' = selectors
                /\ issues' = issues \o parsed.issues \o
                      <<Issue(<<"payload", selectorName>>, "UnknownTargetSelector",
                              <<Plain(selectorName), Plain("define")>>)>>
  /\ selectorIndex' = selectorIndex + 1
  /\ pc' = IF selectorIndex + 1 > Len(selectorMap) THEN TargetLoop(1) ELSE "parse"
  /\ UNCHANGED <<inputVars, callerVars, computed, selectorMap, selectorSchemaCache, resolvedTargets, ti,
                 targetVars, refVars, selStack, selFrames, chase, arg, ret>>

\* ------------------------------------------------------------------------
\* The target loop: selection, ambiguity check, sort and merge
\* ------------------------------------------------------------------------

\* An ambiguity check that reports a pair of applicable selectors whatever
\* the relation of their target sets.
AmbiguityIssuesOfAllPairs(applicable, target, i, j) ==
  LET pairs == {p \in (1..Len(applicable)) \X (1..Len(applicable)) : p[1] < p[2]}
      one(p) == Issue(<<"payload", target>>, "Ambiguous",
                      <<Plain(target), Plain(applicable[p[1]].name),
                        Plain(applicable[p[2]].name)>>)
  IN IF pairs = {} THEN <<>> ELSE <<one(CHOOSE p \in pairs : TRUE)>>

RECURSIVE AmbiguityIssues(_, _, _, _)
\* Lines 534-545: the pairs (i, j), i < j, of applicable selectors whose
\* target sets are not in subset relation, one issue each.
AmbiguityIssues(applicable, target, i, j) ==
  IF i > Len(applicable) THEN <<>>
  ELSE IF j > Len(applicable) THEN AmbiguityIssues(applicable, target, i + 1, i + 2)
  ELSE
    LET a == applicable[i]
        b == applicable[j]
        here ==
          IF ~(isSubset(a.targets, b.targets) \/ isSubset(b.targets, a.targets))
          THEN <<Issue(<<"payload", target>>, "Ambiguous",
                       <<Plain(target), Plain(a.name), Plain(b.name)>>)>>
          ELSE <<>>
    IN here \o AmbiguityIssues(applicable, target, i, j + 1)

\* A comparator that keeps the order of the payload.
BeforeInFileOrder(a, b) == a.index < b.index

\* The comparator of the sort at lines 548-552 puts a before b.
Before(a, b) ==
  LET bySize == Cardinality(b.targets) - Cardinality(a.targets)
  IN IF bySize # 0 THEN bySize < 0 ELSE a.index - b.index < 0

RECURSIVE InsertSorted(_, _)
InsertSorted(sorted, s) ==
  IF sorted = <<>> THEN <<s>>
  ELSE IF Before(s, Head(sorted)) THEN <<s>> \o sorted
  ELSE <<Head(sorted)>> \o InsertSorted(Tail(sorted), s)

RECURSIVE SortBroadToNarrow(_)
\* applicable.sort(...): broad -> narrow, same size in file order.
SortBroadToNarrow(applicable) ==
  IF applicable = <<>> THEN <<>>
  ELSE InsertSorted(SortBroadToNarrow(SubSeq(applicable, 1, Len(applicable) - 1)),
                    applicable[Len(applicable)])

RECURSIVE MergeFrom(_, _, _)
\* Lines 555-558: merged = applicable[0].payload, then each later one over it.
MergeFrom(acc, sorted, i) ==
  IF i > Len(sorted) THEN acc
  ELSE MergeFrom(mergeNormalizedTargetPayload(acc, sorted[i].payload), sorted, i + 1)

\* A filter that takes the first selector of the payload for every target.
ApplicableFirst(target) == SubSeq(selectors, 1, 1)

\* A filter that takes every selector of the payload for every target.
ApplicableAll(target) == selectors

Applicable(target) == SelectSeq(selectors, LAMBDA s : target \in s.targets)

MergedFor(target) ==
  LET sorted == SortBroadToNarrow(Applicable(target))
  IN MergeFrom(sorted[1].payload, sorted, 2)

\* Lines 529-558: the head of the target loop for the target at position ti.
BeginTarget ==
  /\ pc = "target"
  /\ LET target == allTargets[ti]
         applicable == Applicable(target)
     IN IF Len(applicable) = 0
        THEN /\ ti' = ti + 1
             /\ pc' = TargetLoop(ti + 1)
             /\ UNCHANGED <<issues, merged, resolvedAliases, ai>>
        ELSE /\ issues' = issues \o AmbiguityIssues(applicable, target, 1, 2)
             /\ merged' = MergedFor(target)
             /\ resolvedAliases' = <<>>
             /\ ai' = 1
             /\ pc' = "aliases"
             /\ ti' = ti
  /\ UNCHANGED <<inputVars, callerVars, computed, selVars, selectorSchemaCache, resolvedTargets,
                 currentKey, cache, resolvedVersions, vi, refVars, selStack,
                 selFrames, chase, arg, ret>>

\* ------------------------------------------------------------------------
\* Alias resolver
\* ------------------------------------------------------------------------

\* versions[cur] is truthy: an own key, or a name inherited from Object.prototype.
JsTruthy(versions, cur) ==
  Len(cur) = 1 /\ (Has(versions, cur[1]) \/ cur[1] \in ProtoNames)

\* versions[key] where it is truthy.
JsGet(versions, key) == IF Has(versions, key) THEN Get(versions, key) ELSE ProtoValue

\* A chase that takes no name for an alias.
IsAliasNever(aliases, cur) == FALSE

\* typeof aliases[cur] === "string"
IsAlias(aliases, cur) == Len(cur) = 1 /\ Has(aliases, cur[1])

\* A chase that never notices a name it has seen.
RevisitsNever(visited, cur) == FALSE

\* visited.has(cur), of both alias chases.
Revisits(visited, cur) == cur \in visited

\* A resolver without memo of finished versions.
CachedNever(c, key) == FALSE

\* cache.has(key), of both $ref resolvers.
Cached(c, key) == key \in DOMAIN c

\* A version is taken to be in progress whenever any version is.
InProgressAny(s, key) == s # <<>>

\* No version is ever taken to be in progress.
InProgressNever(s, key) == FALSE

\* stack.includes(key), of both $ref resolvers.
InProgress(s, key) == key \in Range(s)

\* A caller that takes every result of a chase for a key.
TruthyAlways(key) == TRUE

\* if (key): not null and not the empty string.
Truthy(key) == key \notin {NULL, ""}

\* A resolved alias map as an alias map: each value a plain name.
AsRefs(resolved) ==
  [i \in 1..Len(resolved) |-> <<resolved[i][1], Plain(resolved[i][2])>>]

\* The locals of a call of resolveAliasOrVersion.
NewChase(site, name, versions, aliases, path) ==
  [site |-> site, name |-> name, cur |-> name, visited |-> {},
   versions |-> versions, aliases |-> aliases, path |-> path]

\* Lines 252-254 and 561-568: the loop of resolveAllAliases calls
\* resolveAliasOrVersion for the next alias; after the last one the current
\* reference is resolved against the raw aliases overlaid with the resolved.
resolveAllAliases ==
  /\ pc = "aliases"
  /\ LET target == allTargets[ti]
     IN IF ai <= Len(merged.aliases)
        THEN chase' = NewChase("aliases", merged.aliases[ai][2], merged.versions,
                               merged.aliases,
                               <<"payload", target, "aliases", merged.aliases[ai][1]>>)
        ELSE chase' = NewChase("current", merged.currentRef, merged.versions,
                               Spread(merged.aliases, AsRefs(resolvedAliases)),
                               <<"payload", target, "current">>)
  /\ pc' = "chase"
  /\ UNCHANGED <<inputVars, callerVars, computed, selVars, selectorSchemaCache, resolvedTargets, ti,
                 targetVars, refVars, selStack, selFrames, arg, ret, issues>>

\* The version loop (lines 576-593) receives the schema of the version at
\* position vi and steps on.
VersionResolved(schema) ==
  /\ resolvedVersions' = Put(resolvedVersions, merged.versions[vi][1],
                             [ref |-> merged.versions[vi][2].ref, schema |-> schema])
  /\ vi' = vi + 1
  /\ pc' = "versions"

\* resolveRefSchema returns schema: to the version loop when no activation
\* is left, otherwise to the activation that asked for its base schema.
RefReturn(schema, callers) ==
  IF callers = <<>>
  THEN VersionResolved(schema) /\ ret' = ret
  ELSE /\ ret' = Some(schema)
       /\ pc' = "ref_exit"
       /\ UNCHANGED <<resolvedVersions, vi>>

\* Lines 296-310: resolveRefSchema goes on with the key its $ref resolved to.
\* The activation is the top of frames0; iss are the issues so far.
RefKeyResolved(refKey, frames0, iss) ==
  LET top == frames0[Len(frames0)]
  IN IF Truthy(refKey) /\ refKey # top.versionKey
     THEN /\ arg' = Plain(refKey)
          /\ frames' = [frames0 EXCEPT ![Len(frames0)].pending = TRUE]
          /\ issues' = iss
          /\ pc' = "ref_enter"
     ELSE /\ arg' = arg
          /\ frames' = frames0
          /\ issues' = IF ~Truthy(refKey)
                       THEN Append(iss, Issue(top.refPath, "UnknownRefTarget",
                                              <<top.ref>>))
                       ELSE iss
          /\ pc' = "ref_exit"

\* Lines 227-242: one iteration of the loop of resolveAliasOrVersion, and,
\* when it returns, the statement of the caller that receives the key.
resolveAliasOrVersion ==
  /\ pc = "chase"
  /\ LET cur == chase.cur
         revisit == Revisits(chase.visited, cur)
         found == ~revisit /\ JsTruthy(chase.versions, cur)
         hop == ~revisit /\ ~found /\ IsAlias(chase.aliases, cur)
         key == IF found THEN cur[1] ELSE NULL
         iss == IF revisit
                THEN Append(issues, Issue(chase.path, "AliasCycle", <<cur>>))
                ELSE IF ~found /\ ~hop
                THEN Append(issues, Issue(chase.path, "NotResolve", <<chase.name>>))
                ELSE issues
     IN IF hop
        THEN /\ chase' = [chase EXCEPT !.visited = @ \cup {cur},
                                       !.cur = Get(chase.aliases, cur[1])]
             /\ UNCHANGED <<pc, issues, resolvedAliases, ai, currentKey, cache,
                            resolvedVersions, vi, ti, arg, frames>>
        ELSE
          /\ chase' = NoChase
          /\ CASE chase.site = "aliases" ->
                    \* lines 253-254
                    /\ resolvedAliases' =
                         IF Truthy(key)
                         THEN Put(resolvedAliases, merged.aliases[ai][1], key)
                         ELSE resolvedAliases
                    /\ ai' = ai + 1
                    /\ pc' = "aliases"
                    /\ issues' = iss
                    /\ UNCHANGED <<currentKey, cache, resolvedVersions, vi, ti,
                                   arg, frames>>
               [] chase.site = "current" ->
                    \* lines 562-574
                    /\ currentKey' = key
                    /\ issues' = iss
                    /\ IF ~Truthy(key)
                       THEN /\ ti' = ti + 1
                            /\ pc' = TargetLoop(ti + 1)
                            /\ UNCHANGED <<cache, resolvedVersions, vi>>
                       ELSE /\ cache' = EmptyMap
                            /\ resolvedVersions' = <<>>
                            /\ vi' = 1
                            /\ pc' = "versions"
                            /\ ti' = ti
                    /\ UNCHANGED <<resolvedAliases, ai, arg, frames>>
               [] OTHER ->
                    \* line 295, the third operand
                    /\ RefKeyResolved(key, frames, iss)
                    /\ UNCHANGED <<resolvedAliases, ai, currentKey, cache,
                                   resolvedVersions, vi, ti>>
  /\ UNCHANGED <<inputVars, callerVars, computed, selVars, selectorSchemaCache, resolvedTargets, merged,
                 stack, selStack, selFrames, ret>>

\* Lines 576-586 and 595-600: the version loop calls resolveRefSchema with an
\* empty stack for the next version; after the last one the target is stored.
ResolveVersions ==
  /\ pc = "versions"
  /\ IF vi <= Len(merged.versions)
     THEN /\ arg' = Plain(merged.versions[vi][1])
          /\ stack' = <<>>
          /\ pc' = "ref_enter"
          /\ UNCHANGED <<resolvedTargets, ti>>
     ELSE /\ resolvedTargets' =
                Put(resolvedTargets, allTargets[ti],
                    [current |-> currentKey, aliases |-> resolvedAliases,
                     versions |-> resolvedVersions])
          /\ ti' = ti + 1
          /\ pc' = TargetLoop(ti + 1)
          /\ UNCHANGED <<arg, stack>>
  /\ UNCHANGED <<inputVars, callerVars, computed, selVars, selRefVars, targetVars, frames, chase, ret,
                 issues>>

\* ------------------------------------------------------------------------
\* Reference resolver, same scope
\* ------------------------------------------------------------------------

Pop(seq) == SubSeq(seq, 1, Len(seq) - 1)

\* A resolver that takes no $ref for a string.
IsRefStringNever(ref) == FALSE

\* typeof ref === "string" && ref.length > 0
IsRefString(ref) == ref.t = "str" /\ ref.s # <<"">>

NewFrame(versionKey, version, refPath) ==
  [versionKey |-> versionKey, schema |-> version.schema, pending |-> FALSE,
   ref |-> IF version.ref.t = "str" THEN version.ref.s ELSE <<>>,
   refPath |-> refPath]

\* Lines 269-314: resolveRefSchema(versionKey, ...) from its first statement
\* to its return, to the call it makes, or to the statement before stack.pop().
resolveRefSchema ==
  /\ pc = "ref_enter"
  /\ LET versionKey == arg[1]
         versions == merged.versions
         basePath == <<"payload", allTargets[ti]>>
         refPath == basePath \o <<versionKey, "$ref">>
         version == JsGet(versions, versionKey)
         ref == version.ref
         frame == NewFrame(versionKey, version, refPath)
         pushed == Append(frames, frame)
     IN
     IF Cached(cache, versionKey)
     THEN /\ RefReturn(cache[versionKey], frames)
          /\ UNCHANGED <<stack, frames, issues, chase, arg, computed>>
     ELSE IF InProgress(stack, versionKey)
     THEN /\ issues' = Append(issues, Issue(refPath, "RefCycle",
                                 [i \in 1..Len(stack) |-> Plain(stack[i])]))
          /\ RefReturn(IF Has(versions, versionKey)
                       THEN Get(versions, versionKey).schema ELSE EmptyMap, frames)
          /\ UNCHANGED <<stack, frames, chase, arg, computed>>
     ELSE IF ~JsTruthy(versions, Plain(versionKey))
     THEN /\ RefReturn(EmptyMap, frames)
          /\ UNCHANGED <<stack, frames, issues, chase, arg, computed>>
     ELSE
       /\ stack' = Append(stack, versionKey)
       /\ computed' = Append(computed, Computation("target", allTargets[ti], versionKey))
       /\ UNCHANGED <<resolvedVersions, vi>>
       /\ IF IsRefString(ref)
          THEN IF Len(ref.s) > 1
               THEN \* ref.includes("::"): resolveExternalSchema(ref, refPath)
                    /\ frames' = [pushed EXCEPT ![Len(pushed)].pending = TRUE]
                    /\ arg' = ref.s
                    /\ pc' = "ext"
                    /\ UNCHANGED <<issues, chase, ret>>
               ELSE IF JsTruthy(versions, ref.s)
               THEN /\ RefKeyResolved(ref.s[1], pushed, issues)
                    /\ UNCHANGED <<chase, ret>>
               ELSE IF Has(resolvedAliases, ref.s[1])
               THEN /\ RefKeyResolved(Get(resolvedAliases, ref.s[1]), pushed, issues)
                    /\ UNCHANGED <<chase, ret>>
               ELSE /\ chase' = NewChase("ref", ref.s, versions,
                                         AsRefs(resolvedAliases), refPath)
                    /\ frames' = pushed
                    /\ pc' = "chase"
                    /\ UNCHANGED <<issues, arg, ret>>
          ELSE /\ issues' = IF ref.t # "undef"
                            THEN Append(issues, Issue(refPath, "RefNotString", <<>>))
                            ELSE issues
               /\ frames' = pushed
               /\ pc' = "ref_exit"
               /\ UNCHANGED <<chase, arg, ret>>
  /\ UNCHANGED <<inputVars, callerVars, selVars, selRefVars, resolvedTargets, ti, merged,
                 resolvedAliases, ai, currentKey, cache>>

\* Lines 289, 307 and 316-319: the merge of the base schema that came back,
\* stack.pop(), cache.set and the return.
resolveRefSchemaExit ==
  /\ pc = "ref_exit"
  /\ LET top == frames[Len(frames)]
         schema == IF top.pending /\ ret.some
                   THEN mergeSchemaMaps(ret.schema, top.schema)
                   ELSE top.schema
     IN /\ stack' = Pop(stack)
        /\ cache' = (top.versionKey :> schema) @@ cache
        /\ frames' = Pop(frames)
        /\ RefReturn(schema, Pop(frames))
  /\ UNCHANGED <<inputVars, callerVars, computed, selVars, selRefVars, resolvedTargets, ti, merged,
                 resolvedAliases, ai, currentKey, issues, chase, arg>>

\* ------------------------------------------------------------------------
\* Reference resolver, cross scope (<selector>::<versionOrAlias>)
\* ------------------------------------------------------------------------

\* The locals of a call of resolveSelectorAliasOrVersion.
NewSelChase(site, parsed, fromPath) ==
  [site |-> site, cur |-> parsed, visited |-> {}, path |-> fromPath]

\* Lines 511-521: resolveExternalSchema(ref, fromPath) up to its call of
\* resolveSelectorAliasOrVersion, or to its return of null.
resolveExternalSchema ==
  /\ pc = "ext"
  /\ LET fromPath == frames[Len(frames)].refPath
         parsed == parseSelectorRef(arg, "")
     IN IF parsed = NoRef
        THEN /\ issues' = Append(issues, Issue(fromPath, "InvalidRef",
                                               <<arg, Plain("external")>>))
             /\ ret' = None
             /\ pc' = "ref_exit"
             /\ chase' = chase
        ELSE /\ chase' = NewSelChase("ext", parsed, fromPath)
             /\ pc' = "selchase"
             /\ UNCHANGED <<issues, ret>>
  /\ UNCHANGED <<inputVars, callerVars, computed, selVars, selRefVars, resolvedTargets, ti, targetVars,
                 refVars, arg>>

\* resolveSelectorSchema returns schema: through resolveExternalSchema to
\* resolveRefSchema when no activation is left, otherwise to the activation
\* that asked for its base schema.
SelReturn(schema, callers) ==
  /\ ret' = Some(schema)
  /\ pc' = IF callers = <<>> THEN "ref_exit" ELSE "sel_exit"

\* A scope that is the merged payload of the first target the selector
\* covers.
targetScope(selector) ==
  LET covering == SelectSeq(selectors, LAMBDA x : x.name = selector)
  IN IF Len(covering) = 0 THEN Get(selectorPayloads, selector)
     ELSE MergedFor(CHOOSE t \in covering[1].targets : TRUE)

\* Lines 427 and 471: selectorPayloads[selector], the payload the selector
\* itself declares, of a selector the payload has.
selectorScope(selector) == Get(selectorPayloads, selector)

\* Lines 427 and 433: selectorPayloads[selector] of a selector the payload
\* does not declare is undefined, or, for a name of Object.prototype, a value
\* without `versions`: reading scope.versions[name] then throws a TypeError.
ScopeThrows(selector) ==
  ~Has(selectorPayloads, selector) /\ selector \in ProtoNames

\* Lines 418-449: one iteration of the loop of resolveSelectorAliasOrVersion
\* and, when it returns, the statement of the caller that receives the result
\* (lines 493-499 in resolveSelectorSchema, 522-524 in resolveExternalSchema).
resolveSelectorAliasOrVersion ==
  /\ pc = "selchase"
  /\ LET cur == chase.cur
         id == <<cur.selector, cur.name>>
         revisit == Revisits(chase.visited, id)
         known == Has(selectorPayloads, cur.selector)
         scope == IF known THEN selectorScope(cur.selector) ELSE NoPayload
         throws == ~revisit /\ ScopeThrows(cur.selector)
         found == ~revisit /\ known /\ JsTruthy(scope.versions, Plain(cur.name))
         isAlias == IsAlias(scope.aliases, Plain(cur.name))
         next == IF isAlias THEN Get(scope.aliases, cur.name) ELSE <<>>
         parsed == IF isAlias THEN parseSelectorRef(next, cur.selector) ELSE NoRef
         hop == ~revisit /\ known /\ ~found /\ isAlias /\ parsed # NoRef
         iss ==
           CASE revisit -> Append(issues, Issue(chase.path, "AliasCycle", <<id>>))
             [] ~known -> Append(issues, Issue(chase.path, "UnknownTargetSelector",
                                               <<Plain(cur.selector)>>))
             [] found -> issues
             [] ~isAlias -> Append(issues, Issue(chase.path, "NotResolve", <<id>>))
             [] parsed = NoRef ->
                  Append(issues, Issue(chase.path, "InvalidReference", <<next>>))
             [] OTHER -> issues
     IN IF throws
        THEN /\ pc' = "thrown"
             /\ UNCHANGED <<chase, issues, arg, ret, selStack, selFrames>>
        ELSE IF hop
        THEN /\ chase' = [chase EXCEPT !.visited = @ \cup {id}, !.cur = parsed]
             /\ UNCHANGED <<pc, issues, arg, ret, selStack, selFrames>>
        ELSE
          /\ chase' = NoChase
          /\ issues' = iss
          /\ IF chase.site = "ext"
             THEN IF found
                  THEN /\ arg' = id
                       /\ selStack' = <<>>
                       /\ pc' = "sel_enter"
                       /\ UNCHANGED <<ret, selFrames>>
                  ELSE /\ ret' = None
                       /\ pc' = "ref_exit"
                       /\ UNCHANGED <<arg, selStack, selFrames>>
             ELSE LET top == selFrames[Len(selFrames)]
                  IN IF found /\ id # top.cacheKey
                     THEN /\ arg' = id
                          /\ selFrames' =
                               [selFrames EXCEPT ![Len(selFrames)].pending = TRUE]
                          /\ pc' = "sel_enter"
                          /\ UNCHANGED <<ret, selStack>>
                     ELSE /\ pc' = "sel_exit"
                          /\ UNCHANGED <<arg, ret, selStack, selFrames>>
  /\ UNCHANGED <<inputVars, callerVars, computed, selVars, selectorSchemaCache, resolvedTargets, ti,
                 targetVars, refVars>>

\* Lines 457-503: resolveSelectorSchema(selector, versionKey, stack) from its
\* first statement to its return, to its call of
\* resolveSelectorAliasOrVersion, or to the statement before stack.pop().
resolveSelectorSchema ==
  /\ pc = "sel_enter"
  /\ LET cacheKey == arg
         selector == arg[1]
         versionKey == arg[2]
         known == Has(selectorPayloads, selector)
         scope == IF known THEN selectorScope(selector) ELSE NoPayload
         hasVersion == known /\ JsTruthy(scope.versions, Plain(versionKey))
         version == JsGet(scope.versions, versionKey)
         ref == version.ref
         refPath == <<"payload", selector, versionKey, "$ref">>
         parsed == IF IsRefString(ref) THEN parseSelectorRef(ref.s, selector) ELSE NoRef
         pushed == Append(selFrames,
                     [cacheKey |-> cacheKey, schema |-> version.schema,
                      pending |-> FALSE])
     IN
     IF Cached(selectorSchemaCache, cacheKey)
     THEN /\ SelReturn(selectorSchemaCache[cacheKey], selFrames)
          /\ UNCHANGED <<issues, selectorSchemaCache, selStack, selFrames, chase, computed>>
     ELSE IF InProgress(selStack, cacheKey)
     THEN LET fallback == IF known /\ Has(scope.versions, versionKey)
                          THEN Get(scope.versions, versionKey).schema
                          ELSE EmptyMap
          IN /\ issues' = Append(issues, Issue(refPath, "RefCycle", selStack))
             /\ selectorSchemaCache' = (cacheKey :> fallback) @@ selectorSchemaCache
             /\ SelReturn(fallback, selFrames)
             /\ UNCHANGED <<selStack, selFrames, chase, computed>>
     ELSE IF ~hasVersion
     THEN /\ selectorSchemaCache' = (cacheKey :> EmptyMap) @@ selectorSchemaCache
          /\ SelReturn(EmptyMap, selFrames)
          /\ UNCHANGED <<issues, selStack, selFrames, chase, computed>>
     ELSE
       /\ selStack' = Append(selStack, cacheKey)
       /\ computed' = Append(computed, Computation("selector", selector, versionKey))
       /\ selFrames' = pushed
       /\ UNCHANGED <<selectorSchemaCache, ret>>
       /\ IF IsRefString(ref) /\ parsed # NoRef
          THEN /\ chase' = NewSelChase("sel", parsed, refPath)
               /\ pc' = "selchase"
               /\ issues' = issues
          ELSE /\ issues' =
                    IF IsRefString(ref)
                    THEN Append(issues, Issue(refPath, "InvalidRef",
                                              <<ref.s, Plain("selector")>>))
                    ELSE IF ref.t # "undef"
                    THEN Append(issues, Issue(refPath, "RefNotString", <<>>))
                    ELSE issues
               /\ pc' = "sel_exit"
               /\ chase' = chase
  /\ UNCHANGED <<inputVars, callerVars, selVars, resolvedTargets, ti, targetVars, refVars, arg>>

\* Lines 497 and 505-508: the merge of the base schema that came back,
\* stack.pop(), selectorSchemaCache.set and the return.
resolveSelectorSchemaExit ==
  /\ pc = "sel_exit"
  /\ LET top == selFrames[Len(selFrames)]
         schema == IF top.pending /\ ret.some
                   THEN mergeSchemaMaps(ret.schema, top.schema)
                   ELSE top.schema
     IN /\ selStack' = Pop(selStack)
        /\ selectorSchemaCache' = (top.cacheKey :> schema) @@ selectorSchemaCache
        /\ selFrames' = Pop(selFrames)
        /\ SelReturn(schema, Pop(selFrames))
  /\ UNCHANGED <<inputVars, callerVars, computed, selVars, resolvedTargets, ti, targetVars, refVars,
                 issues, chase, arg>>

\* The call has returned { payload: { targets: resolvedTargets }, issues }.
Done == pc = "done"

\* The call has ended by an uncaught TypeError (line 433).
Thrown == pc = "thrown"

Next ==
  \/ Start
  \/ ParseSelector
  \/ BeginTarget
  \/ resolveAllAliases
  \/ resolveAliasOrVersion
  \/ ResolveVersions
  \/ resolveRefSchema
  \/ resolveRefSchemaExit
  \/ resolveExternalSchema
  \/ resolveSelectorAliasOrVersion
  \/ resolveSelectorSchema
  \/ resolveSelectorSchemaExit

\* ------------------------------------------------------------------------
\* Inputs: bounded families of raw payloads and target tables
\* ------------------------------------------------------------------------

\* Most versions a payload of the $ref family declares.
MaxVersions == 3

\* Most aliases a payload of the alias family declares.
MaxAliases == 2

\* Most selectors a payload of the coverage family declares.
MaxSelectors == 2

\* The target table of the spec's end-to-end scenario.
Config2 == [all |-> <<"web", "ios">>, mobile |-> <<"ios">>]

\* A target table with two groups that overlap without subset relation.
Config3 ==
  [all |-> <<"web", "ios", "android">>, mobile |-> <<"ios", "android">>,
   apple |-> <<"web", "ios">>]

VersionKeys == <<"v1", "v2", "v3", "v4", "v5">>

AliasKeys == <<"a", "b", "c">>

\* The schema a version `key` declares under `selector`: a field named after
\* the selector and pinned to the key, and a field named after the key.
SchemaFor(selector, key) ==
  (selector :> [type |-> "string", value |-> key])
    @@ (key :> [type |-> "string", dict |-> selector])

\* No $ref in a raw version.
Absent == <<"<absent>">>

RawVersion(selector, key, ref) ==
  Obj(<<<<"schema", SchemaObj(SchemaFor(selector, key))>>>>
      \o (IF ref = Absent THEN <<>> ELSE <<<<"$ref", Str(ref)>>>>))

RawUnversioned(selector) == RawVersion(selector, UNVERSIONED_VERSION_KEY, Absent)

\* {current, alias: ref, ..., version: {schema, $ref}, ...}: aliases is a
\* sequence of <<name, ref>>, refs gives the $ref of the versions v1..vn.
RawVersioned(selector, current, aliases, refs) ==
  Obj(<<<<"current", Str(current)>>>>
      \o [i \in 1..Len(aliases) |-> <<aliases[i][1], Str(aliases[i][2])>>]
      \o [i \in 1..Len(refs) |->
            <<VersionKeys[i], RawVersion(selector, VersionKeys[i], refs[i])>>])

\* $ref family, one scope: selector `all` with versions v1..vn, each with no
\* $ref or a $ref to a version, to the alias a, to an unknown name or to a
\* name of Object.prototype; the alias a names the last version.
LocalRefs(n) ==
  {Absent, Plain("a"), Plain("x"), Plain("constructor")}
    \cup {Plain(VersionKeys[i]) : i \in 1..n}

RefLocal(n) ==
  {Obj(<<<<"all", RawVersioned("all", Plain("v1"),
                              <<<<"a", Plain(VersionKeys[n])>>>>, refs)>>>>) :
     refs \in [1..n -> LocalRefs(n)]}

RefLocalPayloads == UNION {RefLocal(n) : n \in 1..MaxVersions}

Other_(selector) == IF selector = "web" THEN "ios" ELSE "web"

\* $ref family, two scopes: selectors web and ios, two versions and an alias
\* each; $refs and alias values reach into the own and the other scope.
CrossScope(selector) ==
  {RawVersioned(selector, Plain("v1"), <<<<"a", aliasRef>>>>, <<ref1, ref2>>) :
     aliasRef \in {Plain("v1"), <<Other_(selector), "a">>, <<Other_(selector), "v2">>},
     ref1 \in {Absent, Plain("v2"), <<Other_(selector), "v1">>,
               <<Other_(selector), "a">>, <<selector, "v2">>},
     ref2 \in {Absent, Plain("v1"), <<Other_(selector), "v2">>, <<selector, "v1">>}}

RefCrossPayloads ==
  {Obj(<<<<"web", w>>, <<"ios", i>>>>) : w \in CrossScope("web"), i \in CrossScope("ios")}

\* The spec's end-to-end scenario: an unversioned schema under `mobile` and
\* another under `web`.
ScenarioPayload ==
  Obj(<<<<"mobile", RawUnversioned("mobile")>>, <<"web", RawUnversioned("web")>>>>)

InitRef ==
  \E p \in RefLocalPayloads \cup RefCrossPayloads \cup {ScenarioPayload} :
    InitWith(p, Config2)

\* One call of resolveEventPayload on a payload of the $ref family.
SpecRef == InitRef /\ [][Next]_vars

\* A payload of the two-scope $ref family that reaches every statement of the
\* cross-scope resolver.
CrossSeed ==
  Obj(<<<<"web", RawVersioned("web", Plain("v1"), <<<<"a", <<"ios", "a">>>>>>,
                             <<<<"ios", "a">>, <<"web", "v1">>>>)>>,
        <<"ios", RawVersioned("ios", Plain("v1"), <<<<"a", Plain("v2")>>>>,
                             <<Absent, <<"web", "v2">>>>)>>>>)

\* What the $ref of ios.v1 is in the inheritance family: a version or the
\* alias of selector web, a name web does not declare, an empty selector or
\* name part, a selector the payload does not declare, and a selector that
\* is a name of Object.prototype.
InheritRefs ==
  {<<"web", "v1">>, <<"web", "v2">>, <<"web", "a">>, <<"web", "x">>,
   <<"", "v1">>, <<"web", "">>, <<"tv", "v1">>, <<"constructor", "v1">>}

\* Inheritance family: selector web with versions v1, v2 and the alias a,
\* selector ios with versions v1, v2; ios.v1 has a $ref of InheritRefs, the
\* other versions and the alias reach into the own and the other scope.
InheritPayloads ==
  {Obj(<<<<"web", RawVersioned("web", Plain("v1"), <<<<"a", aliasRef>>>>,
                              <<wref1, wref2>>)>>,
         <<"ios", RawVersioned("ios", Plain("v1"), <<>>, <<iref1, iref2>>)>>>>) :
     aliasRef \in {Plain("v2"), <<"ios", "v2">>, <<"", "v1">>},
     wref1 \in {Absent, Plain("v2"), <<"ios", "v2">>},
     wref2 \in {Absent, <<"ios", "v1">>, <<"", "v1">>},
     iref1 \in InheritRefs,
     iref2 \in {Absent, Plain("v1"), <<"web", "v2">>}}

InitInherit == \E p \in InheritPayloads \cup {CrossSeed} : InitWith(p, Config2)

\* One call of resolveEventPayload on a payload of the inheritance family.
SpecInherit == InitInherit /\ [][Next]_vars

\* The versions of the diamond family: enough for two versions with the same
\* base and a version that references one of the two.
DiamondSize == 4

\* Diamond family: selector web with the versions v1..vn, each with no $ref
\* or a $ref to one of the versions, and selector ios whose two versions
\* reference the last and the second version of web.
DiamondPayloads ==
  {Obj(<<<<"web", RawVersioned("web", Plain("v1"), <<>>, refs)>>,
         <<"ios", RawVersioned("ios", Plain("v1"), <<>>,
                              <<<<"web", VersionKeys[DiamondSize]>>,
                                <<"web", "v2">>>>)>>>>) :
     refs \in [1..DiamondSize ->
                 {Absent} \cup {Plain(VersionKeys[i]) : i \in 1..DiamondSize}]}

InitDiamond == \E p \in DiamondPayloads \cup {CrossSeed} : InitWith(p, Config2)

\* One call of resolveEventPayload on a payload of the diamond family.
SpecDiamond == InitDiamond /\ [][Next]_vars

\* Normalizer family: what selector `all` declares is an object with or
\* without `current` (a string or not), with or without a top-level `schema`
\* (a map or not) and with entries a, v1 and b that are strings, versions or
\* neither, or it is no object; selector ios declares an unversioned schema
\* or a value that is no target payload.
NormalizerEntries ==
  {current \o schema \o a \o v1 \o b :
     current \in {<<>>, <<<<"current", Str(Plain("v1"))>>>>, <<<<"current", Other>>>>},
     schema \in {<<>>, <<<<"schema", SchemaObj(SchemaFor("all", "s"))>>>>,
                 <<<<"schema", Str(Plain("v1"))>>>>, <<<<"schema", Other>>>>},
     a \in {<<>>, <<<<"a", Str(Plain("v1"))>>>>, <<<<"a", Other>>>>,
            <<<<"a", RawVersion("all", "a", Absent)>>>>},
     v1 \in {<<>>, <<<<"v1", RawVersion("all", "v1", Absent)>>>>,
             <<<<"v1", Obj(<<>>)>>>>},
     b \in {<<>>, <<<<"b", Other>>>>, <<<<"b", Str(Plain("a"))>>>>}}

NormalizerValues ==
  {Obj(entries) : entries \in NormalizerEntries} \cup {Other, Str(Plain("v1"))}

NormalizerPayloads ==
  {Obj(<<<<"all", value>>, <<"ios", narrow>>>>) :
     value \in NormalizerValues, narrow \in {Other, RawUnversioned("ios")}}

InitNormalizer ==
  \E p \in NormalizerPayloads \cup {CrossSeed} : InitWith(p, Config2)

\* One call of resolveEventPayload on a payload of the normalizer family.
SpecNormalizer == InitNormalizer /\ [][Next]_vars

\* ------------------------------------------------------------------------
\* The callers: validateEvents and validatePayload
\* ------------------------------------------------------------------------

\* Most calls of resolveEventPayload in one run of the validator.
MaxCalls == 3

\* Call family: the payloads of the events of one run.  They declare the
\* same selector::version identifiers with different $refs, so that the
\* resolved schema of an identifier differs from event to event.
CallPayloads ==
  {CrossSeed,
   ScenarioPayload,
   Obj(<<<<"web", RawVersioned("web", Plain("v1"), <<>>, <<Absent, Absent>>)>>,
         <<"ios", RawVersioned("ios", Plain("v1"), <<>>,
                              <<<<"web", "v1">>, <<"ios", "v1">>>>)>>>>),
   Obj(<<<<"web", RawVersioned("web", Plain("x"), <<>>, <<Plain("v2"), Plain("v1")>>)>>,
         <<"ios", RawVersioned("ios", Plain("v1"), <<>>,
                              <<<<"web", "v1">>, Plain("x")>>)>>>>)}

\* A selector schema cache that outlives the call.
KeptSelectorSchemaCache == selectorSchemaCache

\* new Map(), line 393: the selector schema cache of a call.
NewSelectorSchemaCache == EmptyMap

\* What a call has returned, with the payload it was given.
Returned ==
  [payload |-> payload, resolved |-> resolvedTargets, issues |-> issues]

\* validateEvents, through validateEvent and validatePayload: the call for
\* one event has returned and resolveEventPayload is called for the next
\* event, with the same config; lines 326-393 of resolveEventPayload declare
\* its locals anew.
validateEvents ==
  /\ pc = "done"
  /\ Len(results) + 1 < MaxCalls
  /\ results' = Append(results, Returned)
  /\ \E p \in CallPayloads : payload' = p
  /\ pc' = "start"
  /\ issues' = <<>>
  /\ selectorMap' = <<>>
  /\ selectorIndex' = 1
  /\ selectors' = <<>>
  /\ selectorPayloads' = <<>>
  /\ selectorSchemaCache' = NewSelectorSchemaCache
  /\ resolvedTargets' = <<>>
  /\ ti' = 1
  /\ merged' = NoPayload
  /\ resolvedAliases' = <<>>
  /\ ai' = 1
  /\ currentKey' = NULL
  /\ cache' = EmptyMap
  /\ resolvedVersions' = <<>>
  /\ vi' = 1
  /\ stack' = <<>>
  /\ frames' = <<>>
  /\ selStack' = <<>>
  /\ selFrames' = <<>>
  /\ chase' = NoChase
  /\ arg' = <<>>
  /\ ret' = None
  /\ computed' = <<>>
  /\ UNCHANGED <<config, baseSchema, targetBases, errors, effective>>

\* One call after the other.
NextCalls == Next \/ validateEvents

InitCalls == \E p \in CallPayloads : InitWith(p, Config2)

\* A run of the validator over up to MaxCalls events.
SpecCalls == InitCalls /\ [][NextCalls]_vars

\* config.spec.targets?.[targetId]?.schema ?? {}
TargetBase(targetId) ==
  IF targetId \in DOMAIN targetBases THEN targetBases[targetId] ELSE EmptyMap

\* mergeSchemaMaps(baseSchema, targetBase), line 1229 of validatePayload.
baseForTarget(targetId) == mergeSchemaMaps(baseSchema, TargetBase(targetId))

\* field[k] === v
Is(field, k, v) == k \in DOMAIN field /\ field[k] = v

\* The conflict checks with the type check alone.
ConflictChecksTypeOnly(baseField, fieldValue, path) ==
  IF "type" \in DOMAIN baseField /\ "type" \in DOMAIN fieldValue
     /\ baseField["type"] # fieldValue["type"]
  THEN <<Issue(path, "FieldTypeConflict", <<>>)>> ELSE <<>>

\* Lines 1243-1290: the conflict checks of one field of an event schema
\* against the field of the base layers, in the order of the code.
ConflictChecks(baseField, fieldValue, path) ==
  (IF "type" \in DOMAIN baseField /\ "type" \in DOMAIN fieldValue
      /\ baseField["type"] # fieldValue["type"]
   THEN <<Issue(path, "FieldTypeConflict", <<>>)>> ELSE <<>>)
  \o (IF Is(baseField, "required", TRUE) /\ Is(fieldValue, "required", FALSE)
      THEN <<Issue(path, "CannotWeakenRequired", <<>>)>> ELSE <<>>)
  \o (IF Is(baseField, "valueRequired", TRUE) /\ Is(fieldValue, "valueRequired", FALSE)
      THEN <<Issue(path, "CannotWeakenValueRequired", <<>>)>> ELSE <<>>)
  \o (IF Is(baseField, "valueRequired", TRUE) /\ Is(fieldValue, "required", FALSE)
      THEN <<Issue(path, "RequiredFalseUnderValueRequired", <<>>)>> ELSE <<>>)
  \o (IF Is(fieldValue, "valueRequired", TRUE) /\ Is(fieldValue, "required", FALSE)
      THEN <<Issue(path, "InvalidValueRequired", <<>>)>> ELSE <<>>)

RECURSIVE SchemaConflicts(_, _, _, _)
\* Lines 1239-1291: the loop over the fields of an event schema; a field the
\* base layers do not declare is skipped.  The schema being a function, the
\* fields are taken in an order of the model's choice.
SchemaConflicts(names, base, eventSchema, schemaPrefix) ==
  IF names = {} THEN <<>>
  ELSE LET fieldName == CHOOSE n \in names : TRUE
           here == IF fieldName \in DOMAIN base
                   THEN ConflictChecks(base[fieldName], eventSchema[fieldName],
                                       schemaPrefix \o <<fieldName>>)
                   ELSE <<>>
       IN here \o SchemaConflicts(names \ {fieldName}, base, eventSchema, schemaPrefix)

\* Lines 1234-1237: the path of the schema of a version of a target.
SchemaPrefix(targetId, versionKey) ==
  IF versionKey = UNVERSIONED_VERSION_KEY
  THEN <<"payload", targetId, "schema">>
  ELSE <<"payload", targetId, versionKey, "schema">>

RECURSIVE VersionConflicts(_, _, _)
\* Lines 1231-1291: the loop over the versions of a resolved target, from
\* position j on.
VersionConflicts(targetId, versions, j) ==
  IF j > Len(versions) THEN <<>>
  ELSE SchemaConflicts(DOMAIN versions[j][2].schema, baseForTarget(targetId),
                       versions[j][2].schema, SchemaPrefix(targetId, versions[j][1]))
         \o VersionConflicts(targetId, versions, j + 1)

RECURSIVE TargetConflicts(_, _)
\* Lines 1227-1291: the loop over the resolved targets, from position i on.
TargetConflicts(targets, i) ==
  IF i > Len(targets) THEN <<>>
  ELSE VersionConflicts(targets[i][1], targets[i][2].versions, 1)
         \o TargetConflicts(targets, i + 1)

\* Line 1294: the effective schema of every version of every target.
EffectiveSchemas(targets) ==
  [i \in 1..Len(targets) |->
     <<targets[i][1],
       [j \in 1..Len(targets[i][2].versions) |->
          <<targets[i][2].versions[j][1],
            mergeSchemaMaps(baseForTarget(targets[i][1]),
                            targets[i][2].versions[j][2].schema)>>]>>]

\* validatePayload, lines 654-663 and 1227-1294: the issues of the call of
\* resolveEventPayload become errors, then every field of every resolved
\* version is checked against the base layers and the effective schema is
\* computed.  The checks of the effective schema that follow line 1294 push
\* errors of other kinds and are not part of the model.
validatePayload ==
  /\ pc = "done"
  /\ errors' = errors \o issues \o TargetConflicts(resolvedTargets, 1)
  /\ effective' = EffectiveSchemas(resolvedTargets)
  /\ pc' = "validated"
  /\ UNCHANGED <<inputVars, results, computed, issues, selVars, selRefVars,
                 resolvedTargets, ti, targetVars, refVars, chase, arg, ret>>

\* A call of resolveEventPayload and the conflict checks of its caller.
NextValidate == Next \/ validatePayload

\* What a field declares in the conflict family.
ConflictFields ==
  {[type |-> "string", required |-> TRUE], [type |-> "string", required |-> FALSE],
   [type |-> "number", required |-> FALSE], [type |-> "string"]}

\* A raw version with the schema {app_id: field}, or the empty schema when
\* field declares nothing, and with the $ref ref unless that is Absent.
ConflictVersion(field, ref) ==
  Obj(<<<<"schema",
          SchemaObj(IF DOMAIN field = {} THEN EmptyMap ELSE "app_id" :> field)>>>>
      \o (IF ref = Absent THEN <<>> ELSE <<<<"$ref", Str(ref)>>>>))

\* Conflict family: selector web or selector all declares app_id, in an
\* unversioned schema or in the versions v1 and v2, v2 with or without a $ref
\* to v1 and with or without a definition of its own; the spec baseline
\* declares app_id required, not required, or not at all, and the spec may
\* weaken it for target web.
ConflictPayloads ==
  {Obj(<<<<s, ConflictVersion(f, Absent)>>>>) :
     s \in {"web", "all"}, f \in ConflictFields}
  \cup
  {Obj(<<<<s, Obj(<<<<"current", Str(Plain("v1"))>>,
                   <<"v1", ConflictVersion(f1, Absent)>>,
                   <<"v2", ConflictVersion(f2, ref)>>>>)>>>>) :
     s \in {"web", "all"}, f1 \in ConflictFields,
     f2 \in ConflictFields \cup {EmptyMap}, ref \in {Absent, Plain("v1")}}

ConflictBaselines ==
  {EmptyMap, "app_id" :> [type |-> "string", required |-> TRUE],
   "app_id" :> [type |-> "string", required |-> FALSE]}

ConflictTargetBases == {EmptyMap, "web" :> ("app_id" :> [required |-> FALSE])}

InitConflict ==
  \/ \E p \in ConflictPayloads, base \in ConflictBaselines,
        bases \in ConflictTargetBases : InitCall(p, Config2, base, bases)
  \/ InitCall(CrossSeed, Config2, EmptyMap, EmptyMap)

\* validatePayload on an event of the conflict family.
SpecConflict == InitConflict /\ [][NextValidate]_vars

\* Unit family: selector `all` with the versions v1 and v2, each with no $ref
\* or a $ref to a version or to an unknown name, a `current` and an alias a
\* that name a version or an unknown name.
UnitPayloads ==
  {Obj(<<<<"all", RawVersioned("all", cur, <<<<"a", al>>>>, refs)>>>>) :
     cur \in {Plain("v1"), Plain("x")}, al \in {Plain("v2"), Plain("y")},
     refs \in [1..2 -> {Absent, Plain("x"), Plain("v1"), Plain("v2")}]}

InitUnit == \E p \in UnitPayloads \cup {CrossSeed} : InitWith(p, Config2)

\* One call of resolveEventPayload on a payload of the unit family.
SpecUnit == InitUnit /\ [][Next]_vars

\* Overlap family over the groups all, mobile and apple, mobile and apple
\* overlapping in ios without subset relation: selector all with the versions
\* v1 and v2, selectors mobile and apple with the version v1; every $ref is
\* absent or names a version of another selector.
OverlapPayloads ==
  {Obj(<<<<"all", RawVersioned("all", Plain("v1"), <<>>, <<r1, r2>>)>>,
         <<"mobile", RawVersioned("mobile", Plain("v1"), <<>>, <<m1>>)>>,
         <<"apple", RawVersioned("apple", Plain("v1"), <<>>, <<a1>>)>>>>) :
     r1 \in {Absent, <<"mobile", "v1">>, <<"apple", "v1">>, <<"all", "v2">>},
     r2 \in {Absent, <<"mobile", "v1">>, <<"apple", "v1">>},
     m1 \in {Absent, <<"apple", "v1">>, <<"all", "v2">>},
     a1 \in {Absent, <<"mobile", "v1">>, <<"all", "v1">>}}

InitOverlap == \E p \in OverlapPayloads \cup {CrossSeed} : InitWith(p, Config3)

\* One call of resolveEventPayload on a payload of the overlap family.
SpecOverlap == InitOverlap /\ [][Next]_vars

\* The schema of a version of the layer family: the fields of SchemaFor and a
\* field f that every selector declares, pinned to the selector's name.
LayerVersion(selector, key) ==
  Obj(<<<<"schema",
          SchemaObj(SchemaFor(selector, key)
                      @@ ("f" :> [type |-> "string", value |-> selector]))>>>>)

\* What a selector declares in the layer family: an unversioned schema, or
\* the versions v1..vn with vn as `current` and with no alias, the alias a or
\* the alias `own`, both naming vn.
LayerShapes(selector, own) ==
  {LayerVersion(selector, UNVERSIONED_VERSION_KEY)}
  \cup
  {Obj(<<<<"current", Str(Plain(VersionKeys[n]))>>>>
       \o [i \in 1..Len(al) |-> <<al[i], Str(Plain(VersionKeys[n]))>>]
       \o [i \in 1..n |-> <<VersionKeys[i], LayerVersion(selector, VersionKeys[i])>>]) :
     n \in 1..2, al \in {<<>>, <<"a">>, <<own>>}}

\* Layer family: the selectors all (web and ios), mobile (ios) and ios, the
\* two of equal size in either order of declaration.
LayerPayloads ==
  {Obj(<<<<"all", x>>, <<"mobile", y>>, <<"ios", z>>>>) :
     x \in LayerShapes("all", "b"), y \in LayerShapes("mobile", "c"),
     z \in LayerShapes("ios", "d")}
  \cup
  {Obj(<<<<"ios", z>>, <<"all", x>>, <<"mobile", y>>>>) :
     x \in LayerShapes("all", "b"), y \in LayerShapes("mobile", "c"),
     z \in LayerShapes("ios", "d")}

InitLayer == \E p \in LayerPayloads \cup {CrossSeed} : InitWith(p, Config2)

\* One call of resolveEventPayload on a payload of the layer family.
SpecLayer == InitLayer /\ [][Next]_vars

\* Payloads that are neither {schema, ...} nor {current, ...}: a value that is
\* no object, a string, an empty object, an object with a version and no
\* `current`, and an object whose `schema` is no map and that has no
\* `current`.
MalformedPayloads ==
  {Other, Str(Plain("v1")), Obj(<<>>),
   Obj(<<<<"v1", LayerVersion("x", "v1")>>>>),
   Obj(<<<<"schema", Str(Plain("v1"))>>>>)}

\* Malformed family: two of the selectors all, mobile and ios, in either
\* order; one declares a payload of the layer family, the other a malformed
\* one.
MalformedFamily ==
  {Obj(IF validFirst THEN <<<<v, x>>, <<m, bad>>>> ELSE <<<<m, bad>>, <<v, x>>>>) :
     v \in {"all", "mobile", "ios"}, m \in {"all", "mobile", "ios"},
     x \in LayerShapes("ok", "b"), bad \in MalformedPayloads,
     validFirst \in BOOLEAN}

InitMalformed ==
  \E p \in {q \in MalformedFamily : q.e[1][1] # q.e[2][1]} \cup {CrossSeed} :
    InitWith(p, Config2)

\* One call of resolveEventPayload on a payload of the malformed family.
SpecMalformed == InitMalformed /\ [][Next]_vars

\* Alias family: selector `all` with versions v1 and v2 and up to MaxAliases
\* aliases a, b, ...; an alias value and `current` name a version, an alias,
\* an unknown name or a name of Object.prototype; v2 may $ref an alias.
AliasTargets(n) ==
  {Plain("v1"), Plain("v2"), Plain("x"), Plain("constructor")}
    \cup {Plain(AliasKeys[i]) : i \in 1..n}

AliasMaps(n) ==
  {[i \in 1..n |-> <<AliasKeys[i], values[i]>>] : values \in [1..n -> AliasTargets(n)]}

AliasScope(n) ==
  {RawVersioned("all", current, aliases, <<Absent, ref2>>) :
     current \in {Plain("v1"), Plain("a"), Plain("b"), Plain("x"), Plain("constructor")},
     aliases \in AliasMaps(n),
     ref2 \in {Absent, Plain("a"), Plain("b")}}

\* What selector ios declares beside `all`: nothing, an unversioned schema, a
\* versioned payload, or a versioned payload whose current names no version.
NarrowScopes ==
  {<<>>,
   <<<<"ios", RawUnversioned("ios")>>>>,
   <<<<"ios", RawVersioned("ios", Plain("v1"), <<>>, <<Absent>>)>>>>,
   <<<<"ios", RawVersioned("ios", Plain("x"), <<>>, <<Absent>>)>>>>}

AliasPayloads ==
  {Obj(<<<<"all", scope>>>> \o narrow) :
     scope \in UNION {AliasScope(n) : n \in 0..MaxAliases}, narrow \in NarrowScopes}

InitAlias == \E p \in AliasPayloads \cup {CrossSeed} : InitWith(p, Config2)

\* One call of resolveEventPayload on a payload of the alias family.
SpecAlias == InitAlias /\ [][Next]_vars

\* Coverage family: up to MaxSelectors selectors in any order, each a group,
\* a target or the unknown name `desktop`, each with an unversioned schema (U),
\* a versioned payload (V), a versioned payload whose v1 has the $ref
\* "desktop::v1" (X), or a value that is no target payload (I).
SelectorNames == {"all", "mobile", "apple", "web", "ios", "desktop"}

Shapes == {"U", "V", "X", "I"}

Shape(selector, shape) ==
  CASE shape = "U" -> RawUnversioned(selector)
    [] shape = "V" -> RawVersioned(selector, Plain("v1"), <<>>, <<Absent>>)
    [] shape = "X" -> RawVersioned(selector, Plain("v1"), <<>>, <<<<"desktop", "v1">>>>)
    [] OTHER -> Other

SelectorLists(n) ==
  {names \in [1..n -> SelectorNames] :
     \A i, j \in 1..n : i # j => names[i] # names[j]}

CoverPayloads ==
  UNION {{Obj([i \in 1..n |-> <<names[i], Shape(names[i], shapes[i])>>]) :
            names \in SelectorLists(n), shapes \in [1..n -> Shapes]} :
         n \in 1..MaxSelectors}

\* The payload given as one target payload (meaning selector `all`), as an
\* empty object, and as a value that is no object.
ShorthandPayloads ==
  {RawUnversioned("all"),
   RawVersioned("all", Plain("a"), <<<<"a", Plain("v1")>>>>, <<Absent, Plain("a")>>),
   Obj(<<>>), Other}

Init == \E p \in CoverPayloads \cup ShorthandPayloads : InitWith(p, Config3)

\* One call of resolveEventPayload on a payload of the coverage family.
Spec == Init /\ [][Next]_vars

\* ------------------------------------------------------------------------
\* What the properties speak about
\* ------------------------------------------------------------------------

\* The positions of the issues of that kind.
IssuesOfKind(kind) == {i \in 1..Len(issues) : issues[i].kind = kind}

\* The issue at position i is an 'Alias cycle detected' issue.
IsAliasCycle(i) == issues[i].kind = "AliasCycle"

\* The issue at position i is a 'Cycle detected in $ref' issue of
\* resolveRefSchema: its stack names plain version keys.
IsRefCycle(i) == issues[i].kind = "RefCycle" /\ Len(issues[i].args[1]) = 1

\* The issue at position i is a 'Cycle detected in $ref' issue of
\* resolveSelectorSchema: its stack names selector::version identifiers.
IsSelectorRefCycle(i) == issues[i].kind = "RefCycle" /\ Len(issues[i].args[1]) = 2

\* The targets of the output.
OutTargets == KeySet(resolvedTargets)

\* The targets of targets.all some known selector of the payload covers.
CoveredTargets == {t \in Range(allTargets) : Len(Applicable(t)) > 0}

Cycles == "<cycles>"

DeadEnd == "<dead end>"

RECURSIVE Walk(_, _, _)
\* Where the chain of aliases from `name` ends in the scope np: at a version
\* key, at a name that is neither version nor alias, or nowhere.  A chain of
\* more hops than there are aliases repeats a name.
Walk(np, name, hops) ==
  IF Len(name) = 1 /\ Has(np.versions, name[1]) THEN name[1]
  ELSE IF Len(name) = 1 /\ Has(np.aliases, name[1])
  THEN IF hops = 0 THEN Cycles
       ELSE Walk(np, Get(np.aliases, name[1]), hops - 1)
  ELSE DeadEnd

EndOf(np, name) == Walk(np, name, Len(np.aliases))

ResolvesIn(np, name) == EndOf(np, name) \notin {Cycles, DeadEnd}

\* A $ref that is a name: a string and not the empty one.
IsRefName(ref) == ref.t = "str" /\ ref.s # <<"">>

\* The version the same-scope $ref of version k names, or DeadEnd: a $ref
\* with "::" and a $ref to the version itself are no edge.
RefEdge(np, k) ==
  LET ref == Get(np.versions, k).ref
  IN IF IsRefName(ref) /\ Len(ref.s) = 1 /\ ResolvesIn(np, ref.s)
        /\ EndOf(np, ref.s) # k
     THEN EndOf(np, ref.s)
     ELSE DeadEnd

RECURSIVE Orbit(_, _, _)
\* The versions reached from k by one to n $ref edges.
Orbit(np, k, n) ==
  IF n = 0 \/ RefEdge(np, k) = DeadEnd THEN {}
  ELSE {RefEdge(np, k)} \cup Orbit(np, RefEdge(np, k), n - 1)

\* The $ref cycles of length >= 2 among the versions of np, each as the set
\* of its versions.
RefCycles(np) ==
  {Orbit(np, k, Len(np.versions)) :
     k \in {v \in KeySet(np.versions) : v \in Orbit(np, v, Len(np.versions))}}

\* ------------------------------------------------------------------------
\* C1
\* ------------------------------------------------------------------------

InitLive == InitRef \/ InitAlias \/ InitInherit

\* One call on a payload of the $ref, the alias or the inheritance family; the
\* call is the only thread and every statement it is at is executed.
SpecLive == InitLive /\ [][Next]_vars /\ WF_vars(Next)

\* C1: every call of resolveEventPayload returns, whatever cycles the alias
\* values and the $ref strings of the payload form, in one scope or across
\* scopes.
C1_Terminates == <>Done

\* Every call ends: it returns or it throws.
C1_ReturnsOrThrows == <>(Done \/ Thrown)

\* A call has returned after it met an alias cycle, a same-scope $ref cycle
\* and a cross-scope $ref cycle.
C1_Witness ==
  /\ Done
  /\ \E i \in 1..Len(issues) : IsAliasCycle(i)
  /\ \E i \in 1..Len(issues) : IsRefCycle(i)
  /\ \E i \in 1..Len(issues) : IsSelectorRefCycle(i)

\* ------------------------------------------------------------------------
\* C2
\* ------------------------------------------------------------------------

\* The $ref cycle issues of resolveRefSchema under payload.<t>.
RefCycleIssuesOf(t) ==
  Cardinality({i \in IssuesOfKind("RefCycle") : IsRefCycle(i) /\ issues[i].path[2] = t})

\* Every version of every $ref cycle of target t is in the output of t with
\* at least the fields it declares itself.
CycleVersionsResolved(t) ==
  LET np == MergedFor(t)
      out == Get(resolvedTargets, t).versions
  IN \A c \in RefCycles(np) : \A k \in c :
       /\ Has(out, k)
       /\ DOMAIN Get(np.versions, k).schema \subseteq DOMAIN Get(out, k).schema

\* Some covered target has a same-scope $ref cycle of length >= 2.
HasRefCycle == \E t \in CoveredTargets : RefCycles(MergedFor(t)) # {}

AliasCycleIssuesAt(path) ==
  Cardinality({i \in IssuesOfKind("AliasCycle") : issues[i].path = path})

\* The aliases of np whose chain of values comes back to a name it passed.
CyclingAliases(np) ==
  {i \in 1..Len(np.aliases) : EndOf(np, np.aliases[i][2]) = Cycles}

CurrentCycles(np) == EndOf(np, np.currentRef) = Cycles

\* Some covered target has aliases that form a cycle.
HasAliasCycle == \E t \in CoveredTargets : CyclingAliases(MergedFor(t)) # {}

\* No name whose chain cycles got a version key: such an alias is not in the
\* resolved alias map, and a target whose current cycles is not in the output.
NoKeyFromCycle(t) ==
  LET np == MergedFor(t)
  IN /\ CurrentCycles(np) => t \notin OutTargets
     /\ t \in OutTargets =>
          \A i \in CyclingAliases(np) :
            ~Has(Get(resolvedTargets, t).aliases, np.aliases[i][1])

\* C3 as stated: a payload whose aliases form a cycle gets exactly one 'Alias
\* cycle detected' issue from one call, and no name of the cycle resolves to
\* a version key.
C3_ExactlyOneIssue ==
  (Done /\ HasAliasCycle) =>
    /\ Cardinality(IssuesOfKind("AliasCycle")) = 1
    /\ \A t \in CoveredTargets : NoKeyFromCycle(t)

\* C3, amended: for every covered target, each chase that comes back to a
\* name it passed (one chase per alias entry, one for `current`) reports
\* exactly one 'Alias cycle detected' issue at its own path, a chase that does
\* not come back to a name reports none, and no name whose chase cycles
\* resolves to a version key.
C3_OneIssuePerChase ==
  Done =>
    \A t \in CoveredTargets :
      LET np == MergedFor(t)
      IN /\ \A i \in 1..Len(np.aliases) :
              AliasCycleIssuesAt(<<"payload", t, "aliases", np.aliases[i][1]>>) =
                IF i \in CyclingAliases(np) THEN 1 ELSE 0
         /\ AliasCycleIssuesAt(<<"payload", t, "current">>) =
              IF CurrentCycles(np) THEN 1 ELSE 0
         /\ NoKeyFromCycle(t)

\* A target in the output whose aliases a and b name each other: both chases
\* reported the cycle and neither alias is in the resolved map.
C3_Witness ==
  /\ Done
  /\ \E t \in OutTargets :
       /\ Cardinality(CyclingAliases(MergedFor(t))) >= 2
       /\ AliasCycleIssuesAt(<<"payload", t, "aliases", "a">>) = 1
       /\ AliasCycleIssuesAt(<<"payload", t, "aliases", "b">>) = 1
       /\ Get(resolvedTargets, t).aliases = <<>>

\* ------------------------------------------------------------------------
\* C4, C5, C6
\* ------------------------------------------------------------------------

\* Some issue has that path.
IssueAt(path) == \E i \in 1..Len(issues) : issues[i].path = path

\* C4: for every target of the output, `current` is a key of the target's
\* resolved versions.
C4_CurrentIsVersionKey ==
  Done =>
    \A t \in OutTargets :
      Has(Get(resolvedTargets, t).versions, Get(resolvedTargets, t).current)

\* C5: a covered target whose `current` does not resolve to a version key is
\* not in the output and has an issue at payload.<target>.current; every
\* covered target whose `current` resolves is in the output.
C5_UnresolvedCurrentDropsTarget ==
  Done =>
    \A t \in CoveredTargets :
      LET np == MergedFor(t)
      IN IF ResolvesIn(np, np.currentRef)
         THEN t \in OutTargets
         ELSE t \notin OutTargets /\ IssueAt(<<"payload", t, "current">>)

\* C6: in every target of the output each resolved alias names a key of the
\* target's resolved versions; an alias whose chain ends at an unknown name
\* or in a cycle is not in the map and has an issue at its path.
C6_AliasesNameVersionKeys ==
  Done =>
    \A t \in OutTargets :
      LET np == MergedFor(t)
          out == Get(resolvedTargets, t)
      IN /\ \A i \in 1..Len(out.aliases) : Has(out.versions, out.aliases[i][2])
         /\ \A i \in 1..Len(np.aliases) :
              ~ResolvesIn(np, np.aliases[i][2]) =>
                /\ ~Has(out.aliases, np.aliases[i][1])
                /\ IssueAt(<<"payload", t, "aliases", np.aliases[i][1]>>)

\* ------------------------------------------------------------------------
\* C7, C8, C9
\* ------------------------------------------------------------------------

\* The selectors the payload names.
PayloadSelectors == KeySet(selectorMap)

\* A selector of the target table: a group, or a target of targets.all.
IsKnown(name) == name \in DOMAIN config \/ name \in Range(allTargets)

\* The targets a known selector stands for.
TargetsOf(name) ==
  IF name \in DOMAIN config THEN Range(config[name]) ELSE {name}

\* The known selectors of the payload that claim target t.
Claiming(t) == {n \in PayloadSelectors : IsKnown(n) /\ t \in TargetsOf(n)}

\* The unordered pairs of different selectors that both claim t.
ClaimingPairs(t) == {pair \in SUBSET Claiming(t) : Cardinality(pair) = 2}

InSubsetRelation(pair) ==
  \E a, b \in pair : a # b /\ TargetsOf(a) \subseteq TargetsOf(b)

\* An 'Ambiguous selectors' issue for target t that names the two selectors.
IsConflict(i, t, pair) ==
  /\ i.kind = "Ambiguous"
  /\ i.path = <<"payload", t>>
  /\ {i.args[2], i.args[3]} = {Plain(n) : n \in pair}

ConflictIssues(t, pair) ==
  Cardinality({i \in IssuesOfKind("Ambiguous") : IsConflict(issues[i], t, pair)})

C9_AmbiguousIffNoSubset ==
  Done =>
    \A t \in Range(allTargets) : \A pair \in ClaimingPairs(t) :
      (\E i \in 1..Len(issues) : IsConflict(issues[i], t, pair))
        <=> ~InSubsetRelation(pair)

\* The groups mobile and apple both claim ios, neither contains the other:
\* the issue is there and ios is resolved all the same.
C9_Witness ==
  /\ Done
  /\ \E t \in OutTargets : \E pair \in ClaimingPairs(t) :
       /\ ~InSubsetRelation(pair)
       /\ \E i \in 1..Len(issues) : IsConflict(issues[i], t, pair)

\* The position of a selector among the keys of the payload.
PositionOf(n) == CHOOSE i \in 1..Len(selectorMap) : selectorMap[i][1] = n

\* Selector b is merged after selector a: it stands for fewer targets, or
\* for as many and comes later in the payload.
MergedAfter(b, a) ==
  \/ Cardinality(TargetsOf(b)) < Cardinality(TargetsOf(a))
  \/ /\ Cardinality(TargetsOf(b)) = Cardinality(TargetsOf(a))
     /\ PositionOf(b) > PositionOf(a)

\* What selector n declares: its normalized payload.
DeclaredBy(n) == parseTargetPayload(Get(selectorMap, n), <<"payload", n>>).np

\* Selector n declares field f for the version k of the output: in its
\* version k, or in its unversioned schema, which stands for every version.
Declares(n, k, f) ==
  LET np == DeclaredBy(n)
  IN \E v \in KeySet(np.versions) :
       /\ np.isUnversioned \/ v = k
       /\ f \in DOMAIN Get(np.versions, v).schema

\* The field f as selector n declares it for version k.
DeclaredField(n, k, f) ==
  LET np == DeclaredBy(n)
      v == CHOOSE v \in KeySet(np.versions) :
             /\ np.isUnversioned \/ v = k
             /\ f \in DOMAIN Get(np.versions, v).schema
  IN Get(np.versions, v).schema[f]

\* The names of all fields selector n declares.
FieldsOf(n) ==
  UNION {DOMAIN Get(DeclaredBy(n).versions, v).schema :
           v \in KeySet(DeclaredBy(n).versions)}

\* The first selector of the payload that claims t.
FirstClaiming(t) ==
  CHOOSE n \in Claiming(t) : \A m \in Claiming(t) : PositionOf(n) <= PositionOf(m)

UnknownSelectors == {n \in PayloadSelectors : ~IsKnown(n)}

\* The fields declared under selector n and under no known selector.
FieldsOnlyOf(n) ==
  FieldsOf(n) \ UNION {FieldsOf(m) : m \in {k \in PayloadSelectors : IsKnown(k)}}

\* The names of the fields in the resolved schemas of target t.
OutFieldsOf(t) ==
  UNION {DOMAIN Get(Get(resolvedTargets, t).versions, k).schema :
           k \in KeySet(Get(resolvedTargets, t).versions)}

\* An 'Unknown target selector' issue of the selector loop for selector n.
UnknownSelectorIssue(n) ==
  \E i \in 1..Len(issues) :
    /\ issues[i].kind = "UnknownTargetSelector"
    /\ issues[i].path = <<"payload", n>>

\* C10: a selector the target table does not know has an 'Unknown target
\* selector' issue at payload.<selector>, and no field declared only under it
\* is in the resolved schema of any target.
C10_UnknownSelectorDropped ==
  Done =>
    \A n \in UnknownSelectors :
      /\ UnknownSelectorIssue(n)
      /\ \A t \in OutTargets : FieldsOnlyOf(n) \cap OutFieldsOf(t) = {}

\* ------------------------------------------------------------------------
\* C11
\* ------------------------------------------------------------------------

\* Some issue lies at payload.<name> or below it.
IssueUnder(name) ==
  \E i \in 1..Len(issues) :
    /\ Len(issues[i].path) >= 2
    /\ issues[i].path[1] = "payload"
    /\ issues[i].path[2] = name

\* C11: every key of the resolved targets is a target of targets.all that a
\* known selector of the payload claims; a target of targets.all that no
\* selector claims is not in the output and has no issue.
C11_OutputWithinCoverage ==
  Done =>
    /\ \A t \in OutTargets : t \in Range(allTargets) /\ Claiming(t) # {}
    /\ \A t \in Range(allTargets) :
         Claiming(t) = {} => t \notin OutTargets /\ ~IssueUnder(t)

\* One target of targets.all is resolved, another is claimed by no selector
\* of the payload and is left out.
C11_Witness ==
  /\ Done
  /\ OutTargets # {}
  /\ \E t \in Range(allTargets) : Claiming(t) = {} /\ t \notin OutTargets

\* ------------------------------------------------------------------------
\* C12
\* ------------------------------------------------------------------------

\* The known selectors of the payload claim pairwise disjoint target sets.
DisjointCoverage ==
  \A a, b \in {n \in PayloadSelectors : IsKnown(n)} :
    a # b => TargetsOf(a) \cap TargetsOf(b) = {}

\* Some version of selector n has a $ref of the form <selector>::<name>.
HasCrossScopeRef(n) ==
  \E i \in 1..Len(DeclaredBy(n).versions) :
    LET ref == DeclaredBy(n).versions[i][2].ref
    IN IsRefName(ref) /\ Len(ref.s) > 1

\* The names of the fields selector n declares in its version k.
OwnFields(n, k) ==
  IF Has(DeclaredBy(n).versions, k)
  THEN DOMAIN Get(DeclaredBy(n).versions, k).schema
  ELSE {}

\* Every version of the output of t has the fields selector n declares for
\* it and no field that is not among `fields`.
FieldsWithin(t, n, fields) ==
  \A k \in KeySet(Get(resolvedTargets, t).versions) :
    LET schema == Get(Get(resolvedTargets, t).versions, k).schema
    IN OwnFields(n, k) \subseteq DOMAIN schema /\ DOMAIN schema \subseteq fields

\* The call of the scenario has returned what the scenario says: ios with
\* the schema of mobile, web with the schema of web, no issue.
ScenarioResolved ==
  /\ issues = <<>>
  /\ OutTargets = {"web", "ios"}
  /\ Get(resolvedTargets, "ios").versions =
       <<<<UNVERSIONED_VERSION_KEY,
           [ref |-> Undef, schema |-> SchemaFor("mobile", UNVERSIONED_VERSION_KEY)]>>>>
  /\ Get(resolvedTargets, "web").versions =
       <<<<UNVERSIONED_VERSION_KEY,
           [ref |-> Undef, schema |-> SchemaFor("web", UNVERSIONED_VERSION_KEY)]>>>>

\* C12 as stated: the scenario resolves as said, and when the selectors of
\* a payload claim pairwise disjoint target sets every resolved schema of a
\* target has the fields of the one selector that claims it and no other.
C12_OnlyOwnSelectorFields ==
  Done =>
    /\ payload = ScenarioPayload => ScenarioResolved
    /\ DisjointCoverage =>
         \A t \in OutTargets : \A n \in Claiming(t) :
           FieldsWithin(t, n, FieldsOf(n))

\* C12, amended: the scenario resolves as said, and when the selectors of a
\* payload claim pairwise disjoint target sets every resolved schema of a
\* target has the fields of the one selector that claims it; it has no other
\* field unless a version of that selector has a $ref of the form
\* <selector>::<name>, which adds fields of the payload's other selectors.
C12_OwnSelectorFieldsUnlessCrossRef ==
  Done =>
    /\ payload = ScenarioPayload => ScenarioResolved
    /\ DisjointCoverage =>
         \A t \in OutTargets : \A n \in Claiming(t) :
           FieldsWithin(t, n,
             IF HasCrossScopeRef(n)
             THEN UNION {FieldsOf(m) : m \in PayloadSelectors}
             ELSE FieldsOf(n))

\* The call of the scenario has returned.
C12_Witness == Done /\ payload = ScenarioPayload /\ ScenarioResolved

\* ------------------------------------------------------------------------
\* C13
\* ------------------------------------------------------------------------

\* The alias at position i of np was resolved to the version key at the end
\* of its chain, without issue.
AliasResolvedToEnd(t, np, i) ==
  /\ ~IssueAt(<<"payload", t, "aliases", np.aliases[i][1]>>)
  /\ t \in OutTargets =>
       /\ Has(Get(resolvedTargets, t).aliases, np.aliases[i][1])
       /\ Get(Get(resolvedTargets, t).aliases, np.aliases[i][1])
            = EndOf(np, np.aliases[i][2])

\* C13: a name whose chain of aliases ends at a version key resolves to that
\* key, whatever the length of the chain and without issue: a version key to
\* itself, an alias of a version key to that key, and a chain of aliases to
\* the key its last alias names.  This holds of every alias entry and of
\* `current`.
C13_ChainResolvesToItsEnd ==
  Done =>
    \A t \in CoveredTargets :
      LET np == MergedFor(t)
      IN /\ \A i \in 1..Len(np.aliases) :
              ResolvesIn(np, np.aliases[i][2]) => AliasResolvedToEnd(t, np, i)
         /\ ResolvesIn(np, np.currentRef) =>
              /\ ~IssueAt(<<"payload", t, "current">>)
              /\ t \in OutTargets
              /\ Get(resolvedTargets, t).current = EndOf(np, np.currentRef)

\* `current` names alias a, a names alias b, b names a version: the target
\* is in the output with that version as current and as the key of a and b.
C13_Witness ==
  /\ Done
  /\ \E t \in OutTargets :
       LET np == MergedFor(t)
           out == Get(resolvedTargets, t)
       IN /\ np.currentRef = Plain("a")
          /\ Has(np.aliases, "a") /\ Get(np.aliases, "a") = Plain("b")
          /\ Has(np.aliases, "b") /\ Has(np.versions, Get(np.aliases, "b")[1])
          /\ out.current = Get(np.aliases, "b")[1]
          /\ out.aliases = <<<<"a", out.current>>, <<"b", out.current>>>>

\* ------------------------------------------------------------------------
\* Merge family: fields with selection mechanisms and nested maps
\* ------------------------------------------------------------------------

\* The three selection mechanisms of a Field.
Mechanisms == {"value", "enum", "dict"}

\* The fields one side of a merge declares for the field f: any set of
\* mechanisms, `pii` and `checks` absent or with one or two keys, every
\* property valued by the name of the side.
SideFields(side) ==
  {[k \in mech |-> side] @@ pii @@ checks :
     mech \in SUBSET Mechanisms,
     pii \in {EmptyMap, "pii" :> [kind |-> side],
              "pii" :> [kind |-> side, masker |-> side]},
     checks \in {EmptyMap, "checks" :> [max_length |-> side],
                 "checks" :> [max_length |-> side, pattern |-> side]}}

\* The base side also sets a title and a type, the override side may set
\* another type.
BaseFields == {f @@ [title |-> "base", type |-> "string"] : f \in SideFields("base")}

OverrideFields ==
  SideFields("override") \cup {f @@ [type |-> "number"] : f \in SideFields("override")}

RawSchema(schema) == Obj(<<<<"schema", SchemaObj(schema)>>>>)

\* Selector `all` declares f and g, selector `ios` declares f and h: target
\* ios gets mergeSchemaMaps(schema of all, schema of ios), target web the
\* schema of all.
MergePayloads ==
  {Obj(<<<<"all", RawSchema(("f" :> b) @@ ("g" :> [type |-> "string"]))>>,
         <<"ios", RawSchema(("f" :> o) @@ ("h" :> [type |-> "number"]))>>>>) :
     b \in BaseFields, o \in OverrideFields}

InitMerge == \E p \in MergePayloads \cup {CrossSeed} : InitWith(p, Config2)

\* One call of resolveEventPayload on a payload of the merge family.
SpecMerge == InitMerge /\ [][Next]_vars

\* ------------------------------------------------------------------------
\* C14
\* ------------------------------------------------------------------------

\* A call on a payload of the merge family has returned.
MergeDone == Done /\ payload # CrossSeed

\* The field f as selector `all` declares it: the base of the merge.
BaseF == Get(DeclaredBy("all").versions, UNVERSIONED_VERSION_KEY).schema["f"]

\* The field f as selector `ios` declares it: the override of the merge.
OverrideF == Get(DeclaredBy("ios").versions, UNVERSIONED_VERSION_KEY).schema["f"]

\* The resolved schema of target ios: the merge of the two schemas.
MergedSchema ==
  Get(Get(resolvedTargets, "ios").versions, UNVERSIONED_VERSION_KEY).schema

\* The selection mechanisms a field sets.
MechanismsOf(field) == DOMAIN field \cap Mechanisms

\* The merged field has the mechanism k of the override and no other.
OnlyOverrides(k) ==
  MechanismsOf(MergedSchema["f"]) = {k} /\ MergedSchema["f"][k] = OverrideF[k]

AtMostOneSurvives ==
  (Cardinality(MechanismsOf(BaseF)) <= 1 /\ Cardinality(MechanismsOf(OverrideF)) <= 1)
    => Cardinality(MechanismsOf(MergedSchema["f"])) <= 1

\* C14 as stated: whichever of value, enum and dict the override sets, the
\* merged field has it with the override's value and has neither of the other
\* two; at most one of the three is set after the merge when at most one was
\* set on each side.
C14_OverrideMechanismOnly ==
  MergeDone =>
    /\ \A k \in MechanismsOf(OverrideF) : OnlyOverrides(k)
    /\ AtMostOneSurvives

\* The mechanism of the override that mergeField keeps: value before enum
\* before dict.
FirstMechanism(field) ==
  IF "value" \in DOMAIN field THEN "value"
  ELSE IF "enum" \in DOMAIN field THEN "enum"
  ELSE "dict"

\* C14, amended: of the mechanisms the override sets, the first of value,
\* enum, dict is in the merged field with the override's value, and neither
\* of the other two is; at most one of the three is set after the merge when
\* at most one was set on each side.
C14_FirstOverrideMechanismOnly ==
  MergeDone =>
    /\ MechanismsOf(OverrideF) # {} => OnlyOverrides(FirstMechanism(OverrideF))
    /\ AtMostOneSurvives

\* The base sets dict, the override sets value: the merged field has the
\* override's value and no dict.
C14_Witness ==
  /\ MergeDone
  /\ MechanismsOf(BaseF) = {"dict"}
  /\ MechanismsOf(OverrideF) = {"value"}
  /\ MechanismsOf(MergedSchema["f"]) = {"value"}
  /\ MergedSchema["f"]["value"] = "override"

\* ------------------------------------------------------------------------
\* C15
\* ------------------------------------------------------------------------

\* The schema selector n declares in the merge family.
SchemaOfSelector(n) == Get(DeclaredBy(n).versions, UNVERSIONED_VERSION_KEY).schema

\* The nested maps of a Field.
NestedMaps == {"pii", "checks"}

\* The nested map n of a field, empty when the field has none.
NestedOf(field, n) == IF n \in DOMAIN field THEN field[n] ELSE EmptyMap

\* The nested map n of the merged field f is the two maps merged key by
\* key, the override's value for a key both have.
NestedMergedByKey(n) ==
  (n \in DOMAIN BaseF \/ n \in DOMAIN OverrideF) =>
    /\ n \in DOMAIN MergedSchema["f"]
    /\ MergedSchema["f"][n] =
         [k \in DOMAIN NestedOf(BaseF, n) \cup DOMAIN NestedOf(OverrideF, n) |->
            IF k \in DOMAIN NestedOf(OverrideF, n)
            THEN NestedOf(OverrideF, n)[k]
            ELSE NestedOf(BaseF, n)[k]]

\* The merged schema is over the names of both schemas and a field of one
\* schema only is as that schema has it.
UnionOfNames ==
  /\ DOMAIN MergedSchema = DOMAIN SchemaOfSelector("all") \cup DOMAIN SchemaOfSelector("ios")
  /\ MergedSchema["g"] = SchemaOfSelector("all")["g"]
  /\ MergedSchema["h"] = SchemaOfSelector("ios")["h"]

\* A property of the base that the override does not set is in the merged
\* field as the base has it, unless it is a mechanism.
BaseKept ==
  \A p \in DOMAIN BaseF \ (DOMAIN OverrideF \cup NestedMaps) :
    \/ p \in DOMAIN MergedSchema["f"] /\ MergedSchema["f"][p] = BaseF[p]
    \/ p \in Mechanisms /\ p \notin DOMAIN MergedSchema["f"]

\* C15 as stated: the merged schema is over the union of the names, a field
\* of one schema only is unchanged, and in a field of both every property
\* the override sets has the override's value, every other property of the
\* base is kept unless it is an inherited mechanism, and pii and checks are
\* merged key by key.
C15_OverridePropertiesWin ==
  MergeDone =>
    /\ UnionOfNames
    /\ \A p \in DOMAIN OverrideF \ NestedMaps :
         p \in DOMAIN MergedSchema["f"] /\ MergedSchema["f"][p] = OverrideF[p]
    /\ BaseKept
    /\ \A n \in NestedMaps : NestedMergedByKey(n)

\* C15, amended: as stated, but of the mechanisms the override sets only the
\* first of value, enum, dict is in the merged field; the override's other
\* mechanisms are cleared like the inherited ones.
C15_OverridePropertiesWinButOneMechanism ==
  MergeDone =>
    /\ UnionOfNames
    /\ \A p \in DOMAIN OverrideF \ NestedMaps :
         IF p \in Mechanisms /\ p # FirstMechanism(OverrideF)
         THEN p \notin DOMAIN MergedSchema["f"]
         ELSE p \in DOMAIN MergedSchema["f"] /\ MergedSchema["f"][p] = OverrideF[p]
    /\ BaseKept
    /\ \A n \in NestedMaps : NestedMergedByKey(n)

\* The base has pii.kind and pii.masker and a title, the override has
\* pii.kind and a type: the merged field has the override's kind and type
\* and the base's masker and title.
C15_Witness ==
  /\ MergeDone
  /\ "pii" \in DOMAIN BaseF /\ "pii" \in DOMAIN OverrideF
  /\ DOMAIN BaseF["pii"] = {"kind", "masker"} /\ DOMAIN OverrideF["pii"] = {"kind"}
  /\ "type" \in DOMAIN OverrideF
  /\ MergedSchema["f"]["pii"] = [kind |-> "override", masker |-> "base"]
  /\ MergedSchema["f"]["type"] = "number"
  /\ MergedSchema["f"]["title"] = "base"

\* ------------------------------------------------------------------------
\* C16
\* ------------------------------------------------------------------------

\* The version k of np and the versions its chain of same-scope $refs
\* reaches.
ChainOf(np, k) == {k} \cup Orbit(np, k, Len(np.versions))

\* The $ref of version k has the form <selector>::<name>.
IsCrossScope(np, k) ==
  IsRefName(Get(np.versions, k).ref) /\ Len(Get(np.versions, k).ref.s) > 1

\* The chain of version k is an acyclic chain of same-scope $refs.
AcyclicSameScope(np, k) ==
  \A j \in ChainOf(np, k) :
    j \notin Orbit(np, j, Len(np.versions)) /\ ~IsCrossScope(np, j)

RECURSIVE InheritedSchema(_, _, _)
\* mergeSchemaMaps(schema of the version the $ref of k names, own schema),
\* applied along the chain of k; the own schema where the chain ends.
InheritedSchema(np, k, hops) ==
  IF hops = 0 \/ RefEdge(np, k) = DeadEnd
  THEN Get(np.versions, k).schema
  ELSE mergeSchemaMaps(InheritedSchema(np, RefEdge(np, k), hops - 1),
                       Get(np.versions, k).schema)

\* The resolved schema of version k of target t.
ResolvedSchema(t, k) == Get(Get(resolvedTargets, t).versions, k).schema

\* The resolved schema of version k has every field of every version of
\* its chain, and its own fields as it declares them.
InheritsAlongChain(t, np, k) ==
  /\ \A j \in ChainOf(np, k) :
       DOMAIN Get(np.versions, j).schema \subseteq DOMAIN ResolvedSchema(t, k)
  /\ \A f \in DOMAIN Get(np.versions, k).schema :
       ResolvedSchema(t, k)[f] = Get(np.versions, k).schema[f]

\* C16: the resolved schema of a version whose $refs form an acyclic
\* same-scope chain is mergeSchemaMaps(resolved schema of the version its
\* $ref names, own schema), the $ref being a version key or an alias: fields
\* of every ancestor are inherited, the own definition wins, and a version
\* with no $ref resolves to its own schema.
C16_RefMergesBaseUnderOwn ==
  Done =>
    \A t \in OutTargets :
      LET np == MergedFor(t)
      IN \A k \in KeySet(np.versions) :
           AcyclicSameScope(np, k) =>
             /\ ResolvedSchema(t, k) = InheritedSchema(np, k, Len(np.versions))
             /\ InheritsAlongChain(t, np, k)
             /\ Get(np.versions, k).ref = Undef =>
                  ResolvedSchema(t, k) = Get(np.versions, k).schema

\* v1 has a $ref to v2 and v2 a $ref to the alias a of v3: the resolved
\* schema of v1 has the fields of v1, v2 and v3.
C16_Witness ==
  /\ Done
  /\ \E t \in OutTargets :
       LET np == MergedFor(t)
       IN /\ Has(np.versions, "v3")
          /\ Get(np.versions, "v1").ref = Str(Plain("v2"))
          /\ Get(np.versions, "v2").ref = Str(Plain("a"))
          /\ AcyclicSameScope(np, "v1")
          /\ ChainOf(np, "v1") = {"v1", "v2", "v3"}
          /\ {"v1", "v2", "v3"} \subseteq DOMAIN ResolvedSchema(t, "v1")

\* ------------------------------------------------------------------------
\* C17
\* ------------------------------------------------------------------------

\* The payload selector s declares, as the selector loop normalized it.
ScopeOf(s) == Get(selectorPayloads, s)

\* The scope::version pairs the payload declares.
ScopeVersions ==
  UNION {{<<s, k>> : k \in KeySet(Get(selectorPayloads, s).versions)} :
           s \in KeySet(selectorPayloads)}

\* No scope::version.
NoEnd == <<>>

\* A reference with an empty selector part or an empty name part.
HasEmptyPart(ref) == Len(ref) > 1 /\ (ref[1] = "" \/ ref[2] = "")

RECURSIVE SelectorWalk(_, _, _)
\* Where the name n ends when it is resolved in selector s: at <<s, n>> when
\* n is a version of s, where the value of the alias n of s ends, the value
\* being resolved in s or, when it has the form <selector>::<name>, in the
\* selector it names; NoEnd otherwise.
SelectorWalk(s, n, hops) ==
  IF ~Has(selectorPayloads, s) THEN NoEnd
  ELSE IF Has(ScopeOf(s).versions, n) THEN <<s, n>>
  ELSE IF hops = 0 \/ ~Has(ScopeOf(s).aliases, n) THEN NoEnd
  ELSE LET value == Get(ScopeOf(s).aliases, n)
       IN IF HasEmptyPart(value) THEN NoEnd
          ELSE IF Len(value) = 1 THEN SelectorWalk(s, value[1], hops - 1)
          ELSE SelectorWalk(value[1], value[2], hops - 1)

\* Where the reference ref ends when it is read in selector s.
SelectorEnd(s, ref) ==
  IF HasEmptyPart(ref) THEN NoEnd
  ELSE IF Len(ref) = 1 THEN SelectorWalk(s, ref[1], Cardinality(ScopeVersions) + 4)
  ELSE SelectorWalk(ref[1], ref[2], Cardinality(ScopeVersions) + 4)

\* The scope::version the $ref of version k of selector s names, or NoEnd:
\* a $ref to the version itself is no edge.
SelectorEdge(s, k) ==
  LET ref == Get(ScopeOf(s).versions, k).ref
  IN IF IsRefName(ref) /\ SelectorEnd(s, ref.s) # <<s, k>>
     THEN SelectorEnd(s, ref.s)
     ELSE NoEnd

RECURSIVE SelectorOrbit(_, _)
\* The scope::version pairs reached from sk by one to n $ref edges.
SelectorOrbit(sk, n) ==
  IF n = 0 \/ SelectorEdge(sk[1], sk[2]) = NoEnd THEN {}
  ELSE {SelectorEdge(sk[1], sk[2])}
         \cup SelectorOrbit(SelectorEdge(sk[1], sk[2]), n - 1)

\* No $ref cycle is reached from sk.
SelectorAcyclic(sk) ==
  \A j \in {sk} \cup SelectorOrbit(sk, Cardinality(ScopeVersions)) :
    j \notin SelectorOrbit(j, Cardinality(ScopeVersions))

RECURSIVE SelectorSchema(_, _)
\* The schema of sk resolved recursively: its own schema over the resolved
\* schema of the scope::version its $ref names.
SelectorSchema(sk, hops) ==
  LET own == Get(ScopeOf(sk[1]).versions, sk[2]).schema
  IN IF hops = 0 \/ SelectorEdge(sk[1], sk[2]) = NoEnd THEN own
     ELSE mergeSchemaMaps(SelectorSchema(SelectorEdge(sk[1], sk[2]), hops - 1), own)

\* Version k of target t as the selectors covering t declare it.
OwnVersion(t, k) == Get(MergedFor(t).versions, k)

\* The $ref of version k of target t is reported as invalid.
InvalidRefReported(t, k) ==
  \E i \in IssuesOfKind("InvalidRef") : issues[i].path = <<"payload", t, k, "$ref">>

\* The resolved schema of version k of target t is its own schema over the
\* resolved schema of the scope::version `end`, or its own schema when
\* there is none.
InheritsFrom(t, k, end) ==
  IF end = NoEnd THEN ResolvedSchema(t, k) = OwnVersion(t, k).schema
  ELSE SelectorAcyclic(end) =>
         ResolvedSchema(t, k) =
           mergeSchemaMaps(SelectorSchema(end, Cardinality(ScopeVersions)),
                           OwnVersion(t, k).schema)

\* The version of selector s that the name n resolves to with the aliases
\* and versions of s alone.
OwnEnd(s, n) ==
  IF Has(selectorPayloads, s) /\ ResolvesIn(ScopeOf(s), <<n>>)
  THEN <<s, EndOf(ScopeOf(s), <<n>>)>>
  ELSE NoEnd

OnRefCycle(t, k) ==
  Has(MergedFor(t).versions, k)
    /\ k \in Orbit(MergedFor(t), k, Len(MergedFor(t).versions))

\* The scope::version sk lies on a cycle of $ref edges between the versions
\* the selectors declare.
OnSelectorCycle(sk) ==
  sk \in ScopeVersions /\ sk \in SelectorOrbit(sk, Cardinality(ScopeVersions))

\* Every 'Cycle detected in $ref' issue is reported at a version that lies
\* on a cycle.
CycleIssuesAreCycles ==
  \A i \in 1..Len(issues) :
    /\ IsRefCycle(i) => OnRefCycle(issues[i].path[2], issues[i].path[3])
    /\ IsSelectorRefCycle(i) =>
         OnSelectorCycle(<<issues[i].path[2], issues[i].path[3]>>)

\* No $ref edge of the payload lies on a cycle.
RefGraphAcyclic ==
  /\ \A t \in CoveredTargets : RefCycles(MergedFor(t)) = {}
  /\ \A sk \in ScopeVersions : ~OnSelectorCycle(sk)

\* The own schema of the scope::version sk.
SelectorOwn(sk) == Get(ScopeOf(sk[1]).versions, sk[2]).schema

\* The resolved schema of version k of target t has the fields of every
\* version its acyclic chain of $refs reaches.
HasFieldsOfBases(t, k) ==
  LET np == MergedFor(t)
      end == SelectorEnd("", OwnVersion(t, k).ref.s)
  IN /\ AcyclicSameScope(np, k) =>
          \A j \in ChainOf(np, k) :
            DOMAIN Get(np.versions, j).schema \subseteq DOMAIN ResolvedSchema(t, k)
     /\ (IsCrossScope(np, k) /\ end # NoEnd /\ SelectorAcyclic(end)) =>
          \A j \in {end} \cup SelectorOrbit(end, Cardinality(ScopeVersions)) :
            DOMAIN SelectorOwn(j) \subseteq DOMAIN ResolvedSchema(t, k)

\* C18: a 'Cycle detected in $ref' issue is reported only at a version that
\* lies on a cycle of $ref edges; when no $ref edge lies on a cycle, diamonds
\* included, no cycle issue is reported, and the resolved schema of a version
\* with an acyclic chain has the fields of every base the chain reaches.
C18_CycleIssueOnlyForCycle ==
  Done =>
    /\ CycleIssuesAreCycles
    /\ RefGraphAcyclic => IssuesOfKind("RefCycle") = {}
    /\ \A t \in OutTargets :
         \A k \in KeySet(MergedFor(t).versions) : HasFieldsOfBases(t, k)

\* A diamond: v1 and v2 of web reference v3, v4 references v1, ios.v1
\* references web::v4 and ios.v2 references web::v2; no cycle issue is
\* reported and v4, v2, ios.v1 and ios.v2 have the field v3 of the shared
\* base.
C18_Witness ==
  /\ Done
  /\ {"web", "ios"} \subseteq OutTargets
  /\ OwnVersion("web", "v1").ref = Str(Plain("v3"))
  /\ OwnVersion("web", "v2").ref = Str(Plain("v3"))
  /\ OwnVersion("web", "v3").ref = Undef
  /\ Has(MergedFor("web").versions, "v4")
  /\ OwnVersion("web", "v4").ref = Str(Plain("v1"))
  /\ OwnVersion("ios", "v1").ref = Str(<<"web", "v4">>)
  /\ OwnVersion("ios", "v2").ref = Str(<<"web", "v2">>)
  /\ RefGraphAcyclic
  /\ IssuesOfKind("RefCycle") = {}
  /\ \A tk \in {<<"web", "v4">>, <<"web", "v2">>, <<"ios", "v1">>, <<"ios", "v2">>} :
       "v3" \in DOMAIN ResolvedSchema(tk[1], tk[2])

\* ------------------------------------------------------------------------
\* C19
\* ------------------------------------------------------------------------

\* The $ref of version k names version k itself, as a key or through aliases.
SelfRef(np, k) ==
  LET ref == Get(np.versions, k).ref
  IN IsRefName(ref) /\ Len(ref.s) = 1 /\ ResolvesIn(np, ref.s)
       /\ EndOf(np, ref.s) = k

\* The versions of np with a $ref to themselves.
SelfRefs(np) == {k \in KeySet(np.versions) : SelfRef(np, k)}

\* C19: for every target of the output, the $ref edges among its versions
\* contain no cycle of any length from 1 upward, or a 'Cycle detected in
\* $ref' issue is returned.
C19_CycleFreeOrReported ==
  Done =>
    \A t \in OutTargets :
      \/ RefCycles(MergedFor(t)) = {} /\ SelfRefs(MergedFor(t)) = {}
      \/ IssuesOfKind("RefCycle") # {}

\* For every target of the output, the $ref edges among its versions contain
\* no cycle of two or more versions, or a 'Cycle detected in $ref' issue is
\* returned for that target.
C19_LongerCyclesReported ==
  Done =>
    \A t \in OutTargets :
      \/ RefCycles(MergedFor(t)) = {}
      \/ \E i \in 1..Len(issues) : IsRefCycle(i) /\ issues[i].path[2] = t

\* ------------------------------------------------------------------------
\* C20
\* ------------------------------------------------------------------------

\* The raw value is an object.
IsObject(value) == value.t = "obj"

\* The raw value is an object with a key k.
HasKey(value, k) == IsObject(value) /\ \E i \in 1..Len(value.e) : value.e[i][1] = k

\* The value of the key k of an object that has it.
ValueOf(value, k) == value.e[CHOOSE i \in 1..Len(value.e) : value.e[i][1] = k][2]

\* The raw value is an object with a `schema` that is a map.
HasSchemaMap(value) ==
  HasKey(value, "schema") /\ ValueOf(value, "schema").t \in {"schema", "obj"}

\* The raw value is an object with a `current` that is a string.
HasStringCurrent(value) ==
  HasKey(value, "current") /\ ValueOf(value, "current").t = "str"

\* The fields of the `schema` map of a raw value that has one.
SchemaMapOf(value) ==
  IF ValueOf(value, "schema").t = "schema" THEN ValueOf(value, "schema").m
  ELSE EmptyMap

\* The issues of a kind at a path.
IssuesAt(kind, path) == {i \in IssuesOfKind(kind) : issues[i].path = path}

\* The normalizer reported nothing at the path of selector n or below it.
NothingReported(n) ==
  \A i \in IssuesOfKind("InvalidTargetPayload") \cup IssuesOfKind("InvalidVersionEntry") :
    ~(Len(issues[i].path) >= 2 /\ issues[i].path[2] = n)

\* np is the one version `value` under the sentinel key.
IsOneVersion(np, value) ==
  /\ np.isUnversioned
  /\ np.currentRef = <<UNVERSIONED_VERSION_KEY>>
  /\ np.aliases = <<>>
  /\ Keys(np.versions) = <<UNVERSIONED_VERSION_KEY>>
  /\ Get(np.versions, UNVERSIONED_VERSION_KEY).schema = SchemaMapOf(value)

\* np is the versioned payload of `value`, declared by selector n: the
\* entry k is an alias, a version, or reported and dropped.
IsVersionedOf(np, value, n) ==
  /\ ~np.isUnversioned
  /\ np.currentRef = ValueOf(value, "current").s
  /\ KeySet(np.aliases) \cup KeySet(np.versions) \subseteq KeySet(value.e) \ {"current"}
  /\ \A k \in KeySet(value.e) \ {"current"} :
       LET entry == ValueOf(value, k)
           reported == Cardinality(IssuesAt("InvalidVersionEntry", <<"payload", n, k>>))
       IN CASE entry.t = "str" ->
                 /\ Has(np.aliases, k) /\ Get(np.aliases, k) = entry.s
                 /\ ~Has(np.versions, k) /\ reported = 0
            [] HasSchemaMap(entry) ->
                 /\ Has(np.versions, k)
                 /\ Get(np.versions, k).schema = SchemaMapOf(entry)
                 /\ ~Has(np.aliases, k) /\ reported = 0
            [] OTHER ->
                 ~Has(np.aliases, k) /\ ~Has(np.versions, k) /\ reported = 1
  /\ IssuesAt("InvalidTargetPayload", <<"payload", n>>) = {}

\* The value selector n declares is reported once as no target payload.
ReportedOnce(n) ==
  /\ Cardinality(IssuesAt("InvalidTargetPayload", <<"payload", n>>)) = 1
  /\ IssuesOfKind("InvalidVersionEntry") \cap
       {i \in 1..Len(issues) : Len(issues[i].path) >= 2 /\ issues[i].path[2] = n} = {}

\* The selectors the selector loop has normalized, as positions of
\* selectorMap.
Normalized == {i \in 1..Len(selectorMap) : i < selectorIndex}

IssueSet(seq) == {seq[i] : i \in 1..Len(seq)}

\* Two returned calls returned the same resolved payload and the same set
\* of issues.
SameResult(r1, r2) ==
  r1.resolved = r2.resolved /\ IssueSet(r1.issues) = IssueSet(r2.issues)

\* C21: two calls of resolveEventPayload with the same payload and spec
\* return the same resolved payload and the same set of issues, whatever
\* payloads were resolved between them.
C21_SameInputSameResult ==
  /\ \A i, j \in 1..Len(results) :
       results[i].payload = results[j].payload => SameResult(results[i], results[j])
  /\ Done =>
       \A i \in 1..Len(results) :
         results[i].payload = payload => SameResult(results[i], Returned)

\* The third call has returned for the payload of the first call, after a
\* call for another payload; both calls resolved selector::version
\* references and returned issues.
C21_Witness ==
  /\ Done
  /\ Len(results) = 2
  /\ results[1].payload = payload
  /\ results[2].payload # payload
  /\ issues # <<>>
  /\ resolvedTargets # <<>>
  /\ DOMAIN selectorSchemaCache # {}
  /\ results[2].resolved # resolvedTargets

\* ---------------------------------------------------------------------------
\* C22: weakening a required field is reported and the merge completes.

\* The spec's base layers declare field f required for target t: the
\* per-target override when it says so, else the global baseline.
BaseRequired(t, f) ==
  IF t \in DOMAIN targetBases /\ f \in DOMAIN targetBases[t]
     /\ "required" \in DOMAIN targetBases[t][f]
  THEN targetBases[t][f]["required"]
  ELSE f \in DOMAIN baseSchema /\ "required" \in DOMAIN baseSchema[f]
       /\ baseSchema[f]["required"]

\* The schema of position j of the versions of position i of a sequence of
\* targets declares field f with required=false.
DeclaresOptional(targets, i, j, f) ==
  LET schema == targets[i][2].versions[j][2].schema
  IN f \in DOMAIN schema /\ "required" \in DOMAIN schema[f]
     /\ schema[f]["required"] = FALSE

\* The positions of the errors of one kind.
ErrorsOf(kind) == {n \in 1..Len(errors) : errors[n].kind = kind}

\* The path the errors of version j of target i carry for field f.
ErrorPath(i, j, f) ==
  LET t == resolvedTargets[i][1]
      k == resolvedTargets[i][2].versions[j][1]
  IN (IF k = UNVERSIONED_VERSION_KEY THEN <<"payload", t, "schema">>
      ELSE <<"payload", t, k, "schema">>) \o <<f>>

\* The resolved versions whose schema weakens the required field app_id.
Weakened ==
  {ij \in (1..Len(resolvedTargets)) \X (1..MaxVersions) :
     /\ ij[2] <= Len(resolvedTargets[ij[1]][2].versions)
     /\ BaseRequired(resolvedTargets[ij[1]][1], "app_id")
     /\ DeclaresOptional(resolvedTargets, ij[1], ij[2], "app_id")}

\* A raw version declares field f with required=false.
RawOptional(value, f) ==
  /\ HasSchemaMap(value)
  /\ f \in DOMAIN SchemaMapOf(value)
  /\ "required" \in DOMAIN SchemaMapOf(value)[f]
  /\ SchemaMapOf(value)[f]["required"] = FALSE

\* The version schemas the event declares with app_id at required=false:
\* the unversioned schema of a selector, or a version of a versioned one.
DeclaredOptional ==
  {sk \in (1..Len(payload.e)) \X (0..MaxVersions) :
     LET value == payload.e[sk[1]][2]
     IN IF sk[2] = 0 THEN RawOptional(value, "app_id")
        ELSE /\ ~HasSchemaMap(value)
             /\ sk[2] <= Len(value.e)
             /\ IsObject(value.e[sk[2]][2])
             /\ RawOptional(value.e[sk[2]][2], "app_id")}

\* C22 as stated: when the baseline of the spec declares app_id required and
\* one version schema of the event declares it with required=false,
\* validating the event reports exactly one 'Cannot weaken required field'
\* issue.
C22_ExactlyOneIssue ==
  (/\ pc = "validated"
   /\ "app_id" \in DOMAIN baseSchema /\ baseSchema["app_id"]["required"] = TRUE
   /\ targetBases = EmptyMap
   /\ Cardinality(DeclaredOptional) = 1)
    => Cardinality(ErrorsOf("CannotWeakenRequired")) = 1

\* C22: for every target and every version of it whose resolved schema
\* declares with required=false a field that the spec's base for that target
\* (global baseline under the per-target override) declares with
\* required=true, validating the event reports exactly one 'Cannot weaken
\* required field' issue, at the path of that field in that version of that
\* target, and no such issue anywhere else; the merge completes and the
\* effective field's `required` is the override's false.
C22_OneIssuePerWeakenedVersion ==
  pc = "validated" =>
    /\ \A ij \in Weakened :
         /\ Cardinality({n \in ErrorsOf("CannotWeakenRequired") :
                           errors[n].path = ErrorPath(ij[1], ij[2], "app_id")}) = 1
         /\ effective[ij[1]][2][ij[2]][2]["app_id"]["required"] = FALSE
    /\ Cardinality(ErrorsOf("CannotWeakenRequired")) = Cardinality(Weakened)
    /\ Len(effective) = Len(resolvedTargets)

\* A required field of the baseline is weakened by one version of one target
\* and reported.
C22_Witness ==
  /\ pc = "validated"
  /\ Cardinality(Weakened) = 1
  /\ Cardinality(ErrorsOf("CannotWeakenRequired")) = 1
  /\ "app_id" \in DOMAIN baseSchema /\ baseSchema["app_id"]["required"] = TRUE

\* ---------------------------------------------------------------------------
\* C23: the conflict diagnostics at the $ref layer.

\* The raw payload of position s of the event declares the version k.
DeclaresVersion(s, k) ==
  IsObject(payload.e[s][2]) /\ HasKey(payload.e[s][2], k)
  /\ HasSchemaMap(ValueOf(payload.e[s][2], k))

\* The raw version k of the raw payload of position s of the event.
DeclaredVersion(s, k) == ValueOf(payload.e[s][2], k)

\* Version k of selector s has the $ref `base`, a version of the same payload,
\* and both declare field f.
RefLayer(s, k, base, f) ==
  /\ DeclaresVersion(s, k) /\ DeclaresVersion(s, base)
  /\ HasKey(DeclaredVersion(s, k), "$ref")
  /\ ValueOf(DeclaredVersion(s, k), "$ref") = Str(Plain(base))
  /\ f \in DOMAIN SchemaMapOf(DeclaredVersion(s, k))
  /\ f \in DOMAIN SchemaMapOf(DeclaredVersion(s, base))

\* The field f of the $ref base is required and the referencing version
\* declares it with required=false.
RefWeakens(s, k, base, f) ==
  LET under == SchemaMapOf(DeclaredVersion(s, base))[f]
      over == SchemaMapOf(DeclaredVersion(s, k))[f]
  IN /\ "required" \in DOMAIN under /\ under["required"] = TRUE
     /\ "required" \in DOMAIN over /\ over["required"] = FALSE

\* The field f of the $ref base and of the referencing version have
\* different types.
RefTypeMismatch(s, k, base, f) ==
  LET under == SchemaMapOf(DeclaredVersion(s, base))[f]
      over == SchemaMapOf(DeclaredVersion(s, k))[f]
  IN /\ "type" \in DOMAIN under /\ "type" \in DOMAIN over
     /\ under["type"] # over["type"]

\* C23: when a version's field weakens required=true of the same field of its
\* $ref base to false, or has another type than it, validating the event
\* reports a 'Cannot weaken required field' or a 'Field type conflict' issue,
\* as it does between the spec baseline and an event version.
C23_RefLayerConflictReported ==
  pc = "validated" =>
    \A s \in 1..Len(payload.e) :
      /\ (RefLayer(s, "v2", "v1", "app_id") /\ RefWeakens(s, "v2", "v1", "app_id"))
           => ErrorsOf("CannotWeakenRequired") # {}
      /\ (RefLayer(s, "v2", "v1", "app_id") /\ RefTypeMismatch(s, "v2", "v1", "app_id"))
           => ErrorsOf("FieldTypeConflict") # {}

\* ---------------------------------------------------------------------------
\* C24: a failure of `current` or of an alias and the $ref diagnostics.

\* The $ref the event declares for version k of its first selector, as a name.
DeclaredRef(k) ==
  IF DeclaresVersion(1, k) /\ HasKey(DeclaredVersion(1, k), "$ref")
  THEN ValueOf(DeclaredVersion(1, k), "$ref").s
  ELSE Absent

\* The name is no version and no alias of the first selector of the event.
UnknownName(name) ==
  Len(name) = 1 /\ ~HasKey(payload.e[1][2], name[1])

\* An issue of the kind is reported for the $ref of version k of target t.
RefIssue(kind, t, k) ==
  \E i \in IssuesOfKind(kind) : issues[i].path = <<"payload", t, k, "$ref">>

\* The versions v1 and v2 refer to each other.
TwoCycle == DeclaredRef("v1") = Plain("v2") /\ DeclaredRef("v2") = Plain("v1")

\* Every unresolvable $ref and every $ref cycle of the versions of target t
\* is reported.
RefFailuresReported(t) ==
  /\ \A k \in {"v1", "v2"} :
       (DeclaredRef(k) # Absent /\ UnknownName(DeclaredRef(k)))
         => RefIssue("UnknownRefTarget", t, k)
  /\ TwoCycle => (RefIssue("RefCycle", t, "v1") \/ RefIssue("RefCycle", t, "v2"))

\* The `current` of the first selector of the event names no version.
CurrentFails == UnknownName(ValueOf(payload.e[1][2], "current").s)

\* The alias a of the first selector of the event names no version.
AliasFails == UnknownName(ValueOf(payload.e[1][2], "a").s)

\* C24: for every target a selector covers, each version with an unresolvable
\* $ref and each $ref cycle among its versions is reported in the same run,
\* also when the target's `current` or one of its aliases fails to resolve.
C24_RefFailuresAlwaysReported ==
  pc = "done" => \A t \in {"web", "ios"} : RefFailuresReported(t)

\* The $ref failures of a target are reported whenever its `current`
\* resolves, also when its alias does not.
C24_ReportedWhenCurrentResolves ==
  (pc = "done" /\ ~CurrentFails) => \A t \in {"web", "ios"} : RefFailuresReported(t)

\* ---------------------------------------------------------------------------
\* C25: every resolved schema is computed at most once.

\* Two computations of the call are of the same scope and version.
SameVersion(i, j) ==
  computed[i].scope = computed[j].scope /\ computed[i].version = computed[j].version

\* Two issues report a $ref cycle at the same path.
SameCycleReport(i, j) ==
  /\ issues[i].kind = "RefCycle" /\ issues[j].kind = "RefCycle"
  /\ issues[i].path = issues[j].path

DeclaredAlong(sk) ==
  UNION {DOMAIN SelectorOwn(j) :
           j \in {sk} \cup SelectorOrbit(sk, Cardinality(ScopeVersions))}

\* An issue is reported at the $ref of version k of target t.
RefReported(t, k) ==
  \E i \in 1..Len(issues) : issues[i].path = <<"payload", t, k, "$ref">>

\* C26: a $ref 's::n' of a version of a target, n a version of selector s
\* with an acyclic chain of $refs, resolves without an issue to what selector
\* s itself declares for n, resolved along its own $refs: the resolved schema
\* is the version's own schema over that base, and it has no field beyond its
\* own and those the versions of that chain declare themselves, whatever other
\* selectors cover the same targets and whether or not s overlaps another
\* selector.
C26_BaseIsSelectorsOwn ==
  Done =>
    \A t \in OutTargets :
      \A k \in KeySet(MergedFor(t).versions) :
        IsCrossScope(MergedFor(t), k) =>
          LET sk == OwnVersion(t, k).ref.s
          IN (sk \in ScopeVersions /\ SelectorAcyclic(sk)) =>
               /\ ResolvedSchema(t, k) =
                    mergeSchemaMaps(SelectorSchema(sk, Cardinality(ScopeVersions)),
                                    OwnVersion(t, k).schema)
               /\ DOMAIN ResolvedSchema(t, k) \subseteq
                    DOMAIN OwnVersion(t, k).schema \cup DeclaredAlong(sk)
               /\ ~RefReported(t, k)

\* Selectors mobile and apple are reported as overlapping in ios; version v2
\* of ios, declared by selector all, inherits from mobile::v1 the fields of
\* mobile and not the field that apple declares for v1.
C26_Witness ==
  /\ Done
  /\ \E i \in IssuesOfKind("Ambiguous") : issues[i].path = <<"payload", "ios">>
  /\ Has(resolvedTargets, "ios")
  /\ Has(MergedFor("ios").versions, "v2")
  /\ OwnVersion("ios", "v2").ref = Str(<<"mobile", "v1">>)
  /\ "mobile" \in DOMAIN ResolvedSchema("ios", "v2")
  /\ "apple" \notin DOMAIN ResolvedSchema("ios", "v2")
  /\ "apple" \in DOMAIN ResolvedSchema("ios", "v1")

\* ---------------------------------------------------------------------------
\* C27: the discipline of the in-progress stacks.

\* The sequence holds no element twice.
NoRepeat(seq) == \A i, j \in 1..Len(seq) : seq[i] = seq[j] => i = j

\* The position is outside every call of the two $ref resolvers.
OutsideResolvers == pc \in {"start", "parse", "target", "aliases", "versions", "done"}

\* The position is outside every call of resolveSelectorSchema.
OutsideSelectorResolver == selFrames = <<>> /\ pc \notin {"sel_enter", "selchase"}

\* C27: in every reachable state the in-progress stack of resolveRefSchema
\* and that of resolveSelectorSchema hold no identifier twice; the stack holds
\* exactly the identifiers of the activations that pushed and have not
\* returned yet, in the order of the calls; the stack is empty whenever the
\* top-level call for a version has returned.
C27_StackDiscipline ==
  /\ NoRepeat(stack) /\ NoRepeat(selStack)
  /\ Len(stack) = Len(frames)
  /\ \A i \in 1..Len(stack) : stack[i] = frames[i].versionKey
  /\ Len(selStack) = Len(selFrames)
  /\ \A i \in 1..Len(selStack) : selStack[i] = selFrames[i].cacheKey
  /\ OutsideResolvers => (stack = <<>> /\ selStack = <<>>)
  /\ OutsideSelectorResolver => selStack = <<>>

\* The top-level call for the second version of a target has returned after
\* nested calls of both resolvers, one of which met a cycle, and the stacks
\* are empty.
C27_Witness ==
  /\ pc = "versions"
  /\ vi > 2
  /\ stack = <<>> /\ selStack = <<>>
  /\ \E i, j \in 1..Len(computed) :
       computed[i].resolver = "target" /\ computed[j].resolver = "selector"
  /\ \E i \in 1..Len(issues) : IsRefCycle(i)

\* ---------------------------------------------------------------------------
\* C28: the order and the shape of the merge of the selectors of a target.

\* The position of selector n in the payload of the event.
Pos(n) == CHOOSE i \in 1..Len(payload.e) : payload.e[i][1] = n

\* What selector n declares in the payload of the event.
Declared(n) == payload.e[Pos(n)][2]

\* The size of the target set of selector n, a group of the spec or a target.
Size(n) == IF n \in DOMAIN config THEN Len(config[n]) ELSE 1

\* The selectors of the event that cover target t.
Covering(t) ==
  {n \in {payload.e[i][1] : i \in 1..Len(payload.e)} :
     IF n \in DOMAIN config THEN t \in Range(config[n]) ELSE n = t}

\* Selector n is narrower than selector m, or as narrow and declared later.
Narrower(n, m) == Size(n) < Size(m) \/ (Size(n) = Size(m) /\ Pos(n) > Pos(m))

\* The narrowest selector of a set of selectors.
Narrowest(S) == CHOOSE n \in S : \A m \in S \ {n} : Narrower(n, m)

\* The selectors of target t that declare a versioned payload.
VersionedOf(t) == {n \in Covering(t) : ~HasSchemaMap(Declared(n))}

\* The schema selector n has for version k: its unversioned schema for every
\* version, or the schema of its version k, or nothing.
LayerSchema(n, k) ==
  IF HasSchemaMap(Declared(n)) THEN SchemaMapOf(Declared(n))
  ELSE IF HasKey(Declared(n), k) /\ HasSchemaMap(ValueOf(Declared(n), k))
       THEN SchemaMapOf(ValueOf(Declared(n), k))
       ELSE EmptyMap

\* The version keys of the merged payload of target t.
LayerKeys(t) ==
  IF VersionedOf(t) = {} THEN {UNVERSIONED_VERSION_KEY}
  ELSE {k \in {"v1", "v2"} : \E n \in VersionedOf(t) : HasKey(Declared(n), k)}

\* The aliases selector n declares.
LayerAliases(n) ==
  {x \in {"a", "b", "c", "d"} : HasKey(Declared(n), x)}

\* The selectors of target t that declare field g for version k.
Declarers(t, k, g) == {n \in Covering(t) : g \in DOMAIN LayerSchema(n, k)}

\* The resolved versions of target t are those of its versioned selectors,
\* each with every field that a selector of t declares for it, unversioned
\* schemas counting for every version, and each field as the narrowest of its
\* declarers declares it.
NarrowestFieldWins(t) ==
  /\ KeySet(Get(resolvedTargets, t).versions) = LayerKeys(t)
  /\ \A k \in LayerKeys(t) :
       /\ DOMAIN ResolvedSchema(t, k)
            = UNION {DOMAIN LayerSchema(n, k) : n \in Covering(t)}
       /\ \A g \in DOMAIN ResolvedSchema(t, k) :
            ResolvedSchema(t, k)[g] = LayerSchema(Narrowest(Declarers(t, k, g)), k)[g]

\* `current` of target t is that of its narrowest versioned selector.
CurrentOfNarrowest(t) ==
  Get(resolvedTargets, t).current =
    IF VersionedOf(t) = {} THEN UNVERSIONED_VERSION_KEY
    ELSE ValueOf(Declared(Narrowest(VersionedOf(t))), "current").s[1]

\* The aliases of target t are those of its narrowest versioned selector.
AliasesOfNarrowest(t) ==
  KeySet(Get(resolvedTargets, t).aliases) =
    IF VersionedOf(t) = {} THEN {}
    ELSE LayerAliases(Narrowest(VersionedOf(t)))

\* The aliases of target t are those of all its versioned selectors, each
\* with the value its narrowest declarer gives it.
AliasesOfAllVersioned(t) ==
  LET out == Get(resolvedTargets, t).aliases
  IN /\ KeySet(out) = UNION {LayerAliases(n) : n \in VersionedOf(t)}
     /\ \A x \in KeySet(out) :
          Get(out, x) =
            ValueOf(Declared(Narrowest({n \in VersionedOf(t) : x \in LayerAliases(n)})),
                    x).s[1]

\* A call on a payload of the layer family has returned.
LayerDone == Done /\ payload # CrossSeed

\* C28 as stated: the payloads of the selectors of a target are merged broad
\* to narrow, the narrowest declarer of a field wins, an unversioned payload
\* is overlaid on every version, and `current` and the aliases are those of
\* the narrowest versioned payload.
C28_AliasesFromNarrowest ==
  LayerDone =>
    \A t \in {"web", "ios"} :
      NarrowestFieldWins(t) /\ CurrentOfNarrowest(t) /\ AliasesOfNarrowest(t)

\* Selector n, unversioned, reaches version k of target t: a versioned
\* selector that is merged before n declares k, or n is merged before every
\* versioned selector and the first of them declares k.
Reaches(n, t, k) ==
  \/ \E m \in VersionedOf(t) : Narrower(n, m) /\ HasKey(Declared(m), k)
  \/ /\ \A m \in VersionedOf(t) : Narrower(m, n)
     /\ \E first \in VersionedOf(t) :
          /\ \A m \in VersionedOf(t) \ {first} : Narrower(m, first)
          /\ HasKey(Declared(first), k)

\* The selectors of target t whose declaration of field g is merged into
\* version k.
MergedDeclarers(t, k, g) ==
  {n \in Declarers(t, k, g) :
     (HasSchemaMap(Declared(n)) /\ VersionedOf(t) # {}) => Reaches(n, t, k)}

\* The merge of the selectors of a target as the code performs it, pair by
\* pair from the broadest to the narrowest: the narrowest declarer of a field
\* wins, `current` is that of the narrowest versioned payload, the aliases
\* are those of all versioned payloads, and an unversioned payload is
\* overlaid on the versions of the payload it is merged with, not on a
\* version that only a selector merged later declares.
C28_MergedPairByPair ==
  LayerDone =>
    \A t \in {"web", "ios"} :
      /\ KeySet(Get(resolvedTargets, t).versions) = LayerKeys(t)
      /\ \A k \in LayerKeys(t) :
           /\ DOMAIN ResolvedSchema(t, k)
                = {g \in UNION {DOMAIN LayerSchema(n, k) : n \in Covering(t)} :
                     MergedDeclarers(t, k, g) # {}}
           /\ \A g \in DOMAIN ResolvedSchema(t, k) :
                ResolvedSchema(t, k)[g]
                  = LayerSchema(Narrowest(MergedDeclarers(t, k, g)), k)[g]
      /\ CurrentOfNarrowest(t)
      /\ AliasesOfAllVersioned(t)

\* ---------------------------------------------------------------------------
\* C29: a malformed payload next to a valid one.

\* The selectors of the event.
EventSelectors == {payload.e[i][1] : i \in 1..Len(payload.e)}

\* Selector n declares {schema, ...} or {current, ...}.
IsValidPayload(n) ==
  IsObject(Declared(n)) /\ (HasSchemaMap(Declared(n)) \/ HasStringCurrent(Declared(n)))

\* The selector of the event with the valid payload, and the one with the
\* malformed payload.
ValidSelector == CHOOSE n \in EventSelectors : IsValidPayload(n)

MalformedSelector == CHOOSE n \in EventSelectors : ~IsValidPayload(n)

\* The version keys selector n declares.
DeclaredKeys(n) ==
  IF HasSchemaMap(Declared(n)) THEN {UNVERSIONED_VERSION_KEY}
  ELSE {k \in {"v1", "v2"} : HasKey(Declared(n), k)}

\* Target t is resolved with exactly the versions, the aliases and the
\* `current` of selector n.
ResolvedAs(t, n) ==
  LET out == Get(resolvedTargets, t)
  IN /\ KeySet(out.versions) = DeclaredKeys(n)
     /\ \A k \in DeclaredKeys(n) : ResolvedSchema(t, k) = LayerSchema(n, k)
     /\ KeySet(out.aliases) = LayerAliases(n)
     /\ \A x \in LayerAliases(n) : Get(out.aliases, x) = ValueOf(Declared(n), x).s[1]
     /\ out.current = IF HasSchemaMap(Declared(n)) THEN UNVERSIONED_VERSION_KEY
                      ELSE ValueOf(Declared(n), "current").s[1]

\* The targets that the malformed selector covers and the valid one does not.
OnlyMalformed ==
  {t \in {"web", "ios"} : MalformedSelector \in Covering(t) /\ ValidSelector \notin Covering(t)}

\* The one 'Invalid target payload' issue of the malformed selector.
MalformedIssue == Issue(<<"payload", MalformedSelector>>, "InvalidTargetPayload", <<>>)

\* A call on a payload of the malformed family has returned.
MalformedDone == Done /\ payload # CrossSeed

\* Every target the valid selector covers is resolved as the valid selector
\* declares it, and no other target is resolved.
ValidKept ==
  \A t \in {"web", "ios"} :
    IF ValidSelector \in Covering(t)
    THEN Has(resolvedTargets, t) /\ ResolvedAs(t, ValidSelector)
    ELSE ~Has(resolvedTargets, t)

\* C29 as stated: a target covered by a selector with a valid payload and by
\* a selector with a malformed one is resolved with exactly the valid
\* selector's versions, aliases and current, and the only issue the malformed
\* payload causes is its single 'Invalid target payload' issue.
C29_OnlyTheInvalidPayloadIssue ==
  (MalformedDone /\ \E t \in {"web", "ios"} : Covering(t) = EventSelectors)
    => ValidKept /\ issues = <<MalformedIssue>>

\* C29: a target covered by a selector with a valid payload and by a selector
\* with a malformed one is resolved with exactly the valid selector's
\* versions, aliases and current; the issues the malformed payload causes are
\* its single 'Invalid target payload' issue and, for every target that the
\* malformed selector alone covers, one issue that the `current` of that
\* target does not resolve.
C29_ValidPayloadKept ==
  MalformedDone =>
    /\ ValidKept
    /\ Len(issues) = 1 + Cardinality(OnlyMalformed)
    /\ issues[1] = MalformedIssue
    /\ \A t \in OnlyMalformed :
         \E i \in IssuesOfKind("NotResolve") : issues[i].path = <<"payload", t, "current">>

\* The malformed payload is that of the narrower selector ios, merged over
\* the versioned payload of selector all, whose two versions, alias and
\* current are the resolved payload of ios.
C29_Witness ==
  /\ MalformedDone
  /\ MalformedSelector = "ios" /\ ValidSelector = "all"
  /\ Declared("ios") = Obj(<<>>)
  /\ KeySet(Get(resolvedTargets, "ios").versions) = {"v1", "v2"}
  /\ KeySet(Get(resolvedTargets, "ios").aliases) = {"a"}
  /\ Get(resolvedTargets, "ios").current = "v2"
  /\ issues = <<MalformedIssue>>

\* ---------------------------------------------------------------------------
\* C30: the resolved schemas do not depend on the order of the visits.

RECURSIVE FreshSchema(_, _, _)
\* What a computation of version k of target t from nothing returns: the own
\* schema over the schema of the version its $ref names, that one computed in
\* the same way, along the declarations alone and whatever was visited before.
FreshSchema(t, k, hops) ==
  LET np == MergedFor(t)
      own == Get(np.versions, k).schema
      ref == Get(np.versions, k).ref
  IN IF IsCrossScope(np, k)
     THEN IF SelectorEnd("", ref.s) = NoEnd THEN own
          ELSE mergeSchemaMaps(
                 SelectorSchema(SelectorEnd("", ref.s), Cardinality(ScopeVersions)), own)
     ELSE IF hops = 0 \/ RefEdge(np, k) = DeadEnd THEN own
     ELSE mergeSchemaMaps(FreshSchema(t, RefEdge(np, k), hops - 1), own)

\* The target whose versions are being resolved.
VisitedTarget == allTargets[ti]

\* C30: for an acyclic $ref graph, in every state every schema in the cache
\* of the target being resolved and every schema in the cache of the selector
\* resolver equals the schema a fresh computation of that version returns,
\* and so does every resolved schema of the output, whichever versions were
\* visited before and in whichever order the $refs point among them.
C30_CacheEqualsFresh ==
  RefGraphAcyclic =>
    /\ (ti <= Len(allTargets) /\ pc \in {"versions", "ref_enter", "ref_exit"}) =>
         \A k \in DOMAIN cache :
           cache[k] = FreshSchema(VisitedTarget, k, Len(MergedFor(VisitedTarget).versions))
    /\ \A sk \in DOMAIN selectorSchemaCache :
         sk \in ScopeVersions =>
           selectorSchemaCache[sk] = SelectorSchema(sk, Cardinality(ScopeVersions))
    /\ Done =>
         \A t \in OutTargets :
           \A k \in KeySet(MergedFor(t).versions) :
             ResolvedSchema(t, k) = FreshSchema(t, k, Len(MergedFor(t).versions))

\* In an acyclic graph v1 inherits from v4, which is visited after it, v4 and
\* v3 inherit from v2, which is visited before them, and v3 is answered with
\* the fields of v2 from the cache.
C30_Witness ==
  /\ Done /\ RefGraphAcyclic
  /\ Has(resolvedTargets, "web")
  /\ KeySet(MergedFor("web").versions) = {"v1", "v2", "v3", "v4"}
  /\ OwnVersion("web", "v1").ref = Str(Plain("v4"))
  /\ OwnVersion("web", "v4").ref = Str(Plain("v2"))
  /\ OwnVersion("web", "v3").ref = Str(Plain("v2"))
  /\ {"v1", "v2", "v4"} \subseteq DOMAIN ResolvedSchema("web", "v1")
  /\ {"v2", "v3"} \subseteq DOMAIN ResolvedSchema("web", "v3")

====
